---- MODULE Spec2Model ----
(***************************************************************************)
(* xprint / temple: the function registry, the template assembler, the     *)
(* one-shot command and the render service, as state machines.             *)
(*                                                                         *)
(* Specifications:                                                         *)
(*   SpecRegistry  Fn registrations on the registry, BuildFuncMap          *)
(*   SpecBuild     BuildTemplate applied to bounded inputs                 *)
(*   SpecCli       flag parsing (-t / -f) and main's one-shot rendering    *)
(*   SpecRender    one RenderServer request after another                  *)
(***************************************************************************)
EXTENDS Integers, Sequences, FiniteSets, TLC

VARIABLES
    FnMap,                  \* the registry: name -> fn descriptor
    EnableUnsafeFunctions,  \* process-wide policy, set at startup
    DebugHTTPRequests,      \* process-wide debug flag, set at startup
    fs,                     \* the local filesystem: path -> lines, or NoFile
    funcMaps,               \* registry spec: last BuildFuncMap results
    defaultFnMapHelpText,   \* the help text cached by the package's init
    help,                   \* the help text the last call obtained
    bt,                     \* last BuildTemplate call: inputs and result
    _templates,             \* main: the -t / -f flags in command-line order
    cli,                    \* main: position and outcome of the one-shot run
    pc,                     \* RenderServer: position of the handler
    r,                      \* RenderServer: the request being handled
    post,                   \* RenderServer: the decoded jreq
    nparts,                 \* RenderServer: multipart parts read so far
    run,                    \* RenderServer: build / execute results
    w,                      \* RenderServer: the http.ResponseWriter
    debugAllFunctions,      \* tracker: the process-wide track-everything flag
    startTracingOnce,       \* tracker: the sync.Once guarding the consumer
    consumers,              \* tracker: consumer goroutines started so far
    Tracking,               \* tracker: the WaitGroup's pending count
    consumer,               \* tracker: the consumer's position and record
    audit,                  \* tracker: handoffs and log lines, in order
    ctl,                    \* tracker: StartTracking calls in progress
    callers,                \* tracker: helper invocations in progress
    hcall                   \* helpers: the last call, its input and result

vars == <<FnMap, EnableUnsafeFunctions, DebugHTTPRequests, fs, funcMaps,
          defaultFnMapHelpText, help, bt,
          _templates, cli, pc, r, post, nparts, run, w,
          debugAllFunctions, startTracingOnce, consumers, Tracking, consumer,
          audit, ctl, callers, hcall>>

None == "None"

(***************************************************************************)
(* Function Descriptor Registry                                            *)
(***************************************************************************)

\* Names of the built-in table whose descriptor is written with unsafe = true.
UnsafeBuiltins ==
    {"cmd", "env", "http", "rawfile", "textfile", "userinput", "writefile"}

SafeBuiltins ==
    {"add", "b64dec", "b64enc", "decrypt", "duration", "encrypt", "fns",
     "fromgob", "fromjson", "fromyaml", "gunzip", "gzip", "hexdec", "hexenc",
     "is", "join", "lower", "math", "pathbase", "pathext", "random", "split",
     "string", "timestamp", "togob", "tojson", "toyaml", "trimprefix",
     "trimsuffix", "upper"}

\* reflect.TypeOf(funct).String(): the signature string of a callable.
\* A callable is a token naming the Go function; its type is kept abstract as
\* one signature per callable.
TypeOf(funct) == <<"func", funct>>

\* The fn struct literal of one entry.
fn(funct, description, unsafe) ==
    [_fn |-> funct, Description |-> description,
     Signature |-> TypeOf(funct), Unsafe |-> unsafe]

\* var FnMap = templeFnMap{...}: the built-in table.
DefaultFnMap ==
    [name \in SafeBuiltins \cup UnsafeBuiltins |->
        fn(name, "builtin", name \in UnsafeBuiltins)]

\* t[name] = fn{...}: add or overwrite one entry of the map.
MapPut(t, name, value) ==
    [k \in DOMAIN t \cup {name} |-> IF k = name THEN value ELSE t[k]]

\* templeFnMap.Fn
RegistryFn(t, name, description, funct, unsafe) ==
    MapPut(t, name, fn(funct, description, unsafe))

\* A mutant of FuncMapKeeps: the negation on info.Unsafe is lost.
FuncMapKeepsNoNegation(info, addUnsafeFuncs) ==
    info.Unsafe \/ addUnsafeFuncs

\* The filter of BuildFuncMap's loop body: if !info.Unsafe || addUnsafeFuncs.
FuncMapKeeps(info, addUnsafeFuncs) ==
    (~info.Unsafe) \/ addUnsafeFuncs

\* templeFnMap.BuildFuncMap: m := make(FuncMap); for name, info := range t
\* { if keeps { m[name] = info._fn } }; return m. Each iteration writes its
\* own key, so the map built is the same for every range order.
BuildFuncMap(t, addUnsafeFuncs) ==
    [name \in {n \in DOMAIN t : FuncMapKeeps(t[n], addUnsafeFuncs)} |->
        t[name]._fn]

\* templeFnMap.HelpText: json.MarshalIndent(t, "", "  "). The encoder writes
\* the map's keys in sorted order and of each entry the fields description,
\* function and unsafe (_fn is tagged "-"): the text is determined by, and
\* determines, these fields of every entry.
HelpText(t) ==
    [name \in DOMAIN t |->
        [description |-> t[name].Description,
         function |-> t[name].Signature,
         unsafe |-> t[name].Unsafe]]

\* No help text was obtained yet.
NoHelp == <<"<none>">>

(***************************************************************************)
(* Bytes, texts and paths                                                  *)
(***************************************************************************)

\* A byte string is a sequence of runs [b |-> byte, n |-> count > 0] with no
\* two neighbouring runs of the same byte, so that equal byte strings have
\* equal representations and a string of 1 MiB stays small.
Run(b, n) == <<[b |-> b, n |-> n]>>

RECURSIVE BytesLen(_)
BytesLen(s) == IF s = <<>> THEN 0 ELSE s[1].n + BytesLen(Tail(s))

\* bytes.Buffer.Write: append q to s.
BytesCat(s, q) ==
    IF s = <<>> THEN q
    ELSE IF q = <<>> THEN s
    ELSE IF s[Len(s)].b = q[1].b
         THEN SubSeq(s, 1, Len(s) - 1)
              \o Run(q[1].b, s[Len(s)].n + q[1].n) \o Tail(q)
         ELSE s \o q

\* The first k bytes of s.
RECURSIVE BytesHead(_, _)
BytesHead(s, k) ==
    IF s = <<>> \/ k <= 0 THEN <<>>
    ELSE IF s[1].n >= k THEN Run(s[1].b, k)
    ELSE <<s[1]>> \o BytesHead(Tail(s), k - s[1].n)

\* s without its first k bytes.
RECURSIVE BytesDrop(_, _)
BytesDrop(s, k) ==
    IF s = <<>> \/ k <= 0 THEN s
    ELSE IF s[1].n > k THEN Run(s[1].b, s[1].n - k) \o Tail(s)
    ELSE BytesDrop(Tail(s), k - s[1].n)

\* A path or template name is its sequence of slash separated elements.
\* path.Base: the last element; "." for the empty path.
Base(p) == IF p = <<>> THEN <<".">> ELSE <<p[Len(p)]>>

\* A template text is a sequence of tokens. Literal tokens stand for
\* themselves; action tokens are the template engine's {{...}} actions.
FuncTokens  == {"{{cmd}}", "{{upper}}"}
BlankTokens == {" ", "\n"}

\* The function an action token calls.
TokenFunc(tok) == IF tok = "{{cmd}}" THEN "cmd" ELSE "upper"

\* The bytes of a literal token.
TokBytes(tok) ==
    CASE tok = "A"    -> Run(65, 1)
      [] tok = "B"    -> Run(66, 1)
      [] tok = " "    -> Run(32, 1)
      [] tok = "\n"   -> Run(10, 1)
      [] tok = "#!sh" -> Run(35, 1) \o Run(33, 1) \o Run(115, 1) \o Run(104, 1)
      [] OTHER        -> <<>>

\* strings.HasPrefix(t, "#!") on a line of a file.
HasShebangPrefix(t) == t \in {"#!sh"}

(***************************************************************************)
(* The template engine (text/template), as far as BuildTemplate and the    *)
(* handlers use it                                                         *)
(***************************************************************************)

\* The tree of a template object that has not been parsed (nil).
NoTree == <<"<nil>">>

\* Template.Parse's error for a text under a function map, "" for none: the
\* first action in text order that is malformed or names a function that is
\* not in the map.
RECURSIVE ParseErr(_, _)
ParseErr(text, funcs) ==
    IF text = <<>> THEN ""
    ELSE IF text[1] = "{{bad" THEN "unclosed action"
    ELSE IF text[1] \in FuncTokens /\ TokenFunc(text[1]) \notin DOMAIN funcs
         THEN "function not defined"
    ELSE ParseErr(Tail(text), funcs)

\* parse.IsEmptyTree: nothing but white space.
IsEmptyTree(text) == \A i \in 1..Len(text) : text[i] \in BlankTokens

\* What printing the data value writes.
NoValue ==
    Run(60, 1) \o Run(110, 1) \o Run(111, 1) \o Run(32, 1) \o Run(118, 1)
    \o Run(97, 1) \o Run(108, 1) \o Run(117, 1) \o Run(101, 1) \o Run(62, 1)

PrintData(data) == IF data.kind = "nil" THEN NoValue ELSE data.s

\* Executing a parsed text against data: the bytes written so far and the
\* error, "" for none. Execution stops at the first failing action.
RECURSIVE ExecText(_, _, _)
ExecText(text, data, out) ==
    IF text = <<>> THEN [out |-> out, err |-> ""]
    ELSE IF text[1] = "{{fail}}"
         THEN [out |-> out, err |-> "error calling index"]
    ELSE IF text[1] = "{{.}}"
         THEN ExecText(Tail(text), data, BytesCat(out, PrintData(data)))
    ELSE IF text[1] = "{{cmd}}"
         THEN ExecText(Tail(text), data, BytesCat(out, Run(67, 1)))
    ELSE IF text[1] = "{{upper}}"
         THEN ExecText(Tail(text), data, BytesCat(out, Run(85, 1)))
    ELSE ExecText(Tail(text), data, BytesCat(out, TokBytes(text[1])))

\* template.New(name).Funcs(funcs): a template object with no tree yet. The
\* fields tmpl and funcs are the set shared by all associated templates.
TemplateNew(name, funcs) ==
    [name |-> name, Tree |-> NoTree, tmpl |-> <<>>, funcs |-> funcs]

\* tpl.New(name): a new, empty template object associated with tpl.
TemplateAssocNew(tpl, name) ==
    [name |-> name, Tree |-> NoTree, tmpl |-> tpl.tmpl, funcs |-> tpl.funcs]

\* Template.Parse on a template object without a tree: the object itself
\* takes the tree; the shared set binds the object's name to it unless the
\* tree is empty and the name is already bound (associate).
TemplateParse(tpl, text) ==
    LET err == ParseErr(text, tpl.funcs)
        keepOld == tpl.name \in DOMAIN tpl.tmpl /\ IsEmptyTree(text)
    IN  IF err # "" THEN [tpl |-> tpl, err |-> err]
        ELSE [tpl |-> [tpl EXCEPT !.Tree = text,
                                  !.tmpl = IF keepOld THEN tpl.tmpl
                                           ELSE MapPut(tpl.tmpl, tpl.name, text)],
              err |-> ""]

\* Template.Execute: runs the object's own tree.
TemplateExecute(tpl, data) ==
    IF tpl.Tree = NoTree
    THEN [out |-> <<>>, err |-> "incomplete or empty template", name |-> tpl.name]
    ELSE [out |-> ExecText(tpl.Tree, data, <<>>).out,
          err |-> ExecText(tpl.Tree, data, <<>>).err,
          name |-> tpl.name]

\* Template.ExecuteTemplate: runs the tree bound to name in the shared set.
TemplateExecuteTemplate(tpl, name, data) ==
    IF name \notin DOMAIN tpl.tmpl
    THEN [out |-> <<>>, err |-> "no template associated", name |-> name]
    ELSE [out |-> ExecText(tpl.tmpl[name], data, <<>>).out,
          err |-> ExecText(tpl.tmpl[name], data, <<>>).err,
          name |-> name]

(***************************************************************************)
(* Template Assembler                                                      *)
(***************************************************************************)

\* The content of a path that cannot be opened.
NoFile == <<"<enoent>">>

\* fload's loop body for one scanned line t. The counter i is never
\* incremented, so "i == 0 && HasPrefix" is HasPrefix on every line.
FloadLine(t) == IF HasShebangPrefix(t) THEN <<>> ELSE <<t, "\n">>

RECURSIVE FloadLines(_)
FloadLines(lines) ==
    IF lines = <<>> THEN <<>>
    ELSE FloadLine(lines[1]) \o FloadLines(Tail(lines))

\* fload(p): the text of the file and the error, "" for none.
fload(files, p) ==
    IF p \notin DOMAIN files \/ files[p] = NoFile
    THEN [text |-> <<>>, err |-> "no such file or directory"]
    ELSE [text |-> FloadLines(files[p]), err |-> ""]

\* What BuildTemplate returns: (tpl, all, err). ok tells tpl from nil.
BuildFail(all, err) == [ok |-> FALSE, tpl |-> TemplateNew(<<>>, <<>>),
                        all |-> all, err |-> err]

\* The second loop of BuildTemplate, over the local files in argument order.
RECURSIVE BuildLocalFiles(_, _, _, _)
BuildLocalFiles(files, tpl, all, localFiles) ==
    IF localFiles = <<>> THEN [ok |-> TRUE, tpl |-> tpl, all |-> all, err |-> ""]
    ELSE LET lft    == localFiles[1]
             loaded == fload(files, lft)
             n      == Base(lft)
             parsed == TemplateParse(TemplateAssocNew(tpl, n), loaded.text)
         IN  IF loaded.err # "" THEN BuildFail(<<>>, loaded.err)
             ELSE IF parsed.err # "" THEN BuildFail(<<>>, parsed.err)
             ELSE BuildLocalFiles(files, parsed.tpl, Append(all, n),
                                  Tail(localFiles))

\* The third loop of BuildTemplate, over the map loadedFiles. Go ranges over
\* a map in an order of its own choosing: order is that order, a sequence of
\* the map's keys.
RECURSIVE BuildLoadedFiles(_, _, _, _)
BuildLoadedFiles(tpl, all, loadedFiles, order) ==
    IF order = <<>> THEN [ok |-> TRUE, tpl |-> tpl, all |-> all, err |-> ""]
    ELSE LET fname   == Base(order[1])
             content == loadedFiles[order[1]]
             parsed  == TemplateParse(TemplateAssocNew(tpl, fname), content)
         IN  IF parsed.err # "" THEN BuildFail(<<>>, parsed.err)
             ELSE BuildLoadedFiles(parsed.tpl, Append(all, fname),
                                   loadedFiles, Tail(order))

\* A mutant of BuildFinish: the check for an empty name list is missing.
BuildFinishNoCheck(res) == res

\* The end of BuildTemplate: if len(all) < 1 { return nil, all, error }.
BuildFinish(res) ==
    IF res.ok /\ Len(res.all) < 1
    THEN BuildFail(res.all, "no templates found")
    ELSE res

\* templeFnMap.BuildTemplate(_unsafe, name, _template, loadedFiles,
\* localFiles...), with the range order of loadedFiles made explicit.
BuildTemplate(t, files, _unsafe, name, _template, loadedFiles, order, localFiles) ==
    LET tpl0   == TemplateNew(name, BuildFuncMap(t, _unsafe))
        parsed == TemplateParse(tpl0, _template)
        tpl1   == IF _template # <<>> THEN parsed.tpl ELSE tpl0
        all1   == IF _template # <<>> THEN <<Base(name)>> ELSE <<>>
        afterLocal == BuildLocalFiles(files, tpl1, all1, localFiles)
    IN  IF _template # <<>> /\ parsed.err # "" THEN BuildFail(<<>>, parsed.err)
        ELSE IF ~afterLocal.ok THEN afterLocal
        ELSE BuildFinish(BuildLoadedFiles(afterLocal.tpl, afterLocal.all,
                                          loadedFiles, order))

\* All orders in which a range over the keys of a map can visit them.
RECURSIVE Orders(_)
Orders(keys) ==
    IF keys = {} THEN {<<>>}
    ELSE UNION {{<<k>> \o o : o \in Orders(keys \ {k})} : k \in keys}

(***************************************************************************)
(* Idle values of the variables a specification does not use               *)
(***************************************************************************)

\* The files on disk.
FileSystem ==
    (<<"a.tpl">> :> <<"A">>)
    @@ (<<"dir", "a.tpl">> :> <<"#!sh", "B", "#!sh">>)
    @@ (<<"b.tpl">> :> <<"B">>)
    @@ (<<"bad.tpl">> :> <<"{{bad">>)
    @@ (<<"missing">> :> NoFile)

NilData == [kind |-> "nil", s |-> <<>>]

BtIdle ==
    [state |-> "idle", _unsafe |-> FALSE, name |-> <<>>, _template |-> <<>>,
     loadedFiles |-> <<>>, localFiles |-> <<>>, order |-> <<>>,
     res |-> BuildFail(<<>>, "")]

ExecIdle == [out |-> <<>>, err |-> "", name |-> <<>>]

CliIdle == [pc |-> "flags", res |-> BuildFail(<<>>, ""), exec |-> ExecIdle,
            buf |-> <<>>]

FuncMapsIdle == [called |-> FALSE, addUnsafeFuncs |-> FALSE, t |-> <<>>, m |-> <<>>]

\* jreq{Templates: make(map[string]string)}
EmptyPost == [Template |-> <<>>, Templates |-> <<>>, Data |-> NilData,
              Outfile |-> "", ForceDL |-> FALSE]

ReqIdle == [Method |-> "", Path |-> "", multipart |-> FALSE, dumpErr |-> FALSE,
            mrErr |-> FALSE, jsonOK |-> FALSE, json |-> EmptyPost]

RunIdle == [unsafe |-> FALSE, bt |-> BuildFail(<<>>, ""), built |-> FALSE,
            exec |-> ExecIdle, executed |-> FALSE, buf |-> <<>>,
            ctypeBuf |-> <<>>, shape |-> "none"]

\* A ResponseWriter nothing was written to.
NewResponseWriter == [calls |-> <<>>, header |-> <<>>, body |-> <<>>]

\* The registry as the package's initialisation leaves it:
\* func init() { defaultFnMapHelpText = FnMap.HelpText() }
RegistryIdle ==
    /\ FnMap = DefaultFnMap
    /\ funcMaps = FuncMapsIdle
    /\ defaultFnMapHelpText = HelpText(DefaultFnMap)
    /\ help = NoHelp

BuildIdle == bt = BtIdle

CliIsIdle ==
    /\ _templates = <<>>
    /\ cli = CliIdle

RenderIdle ==
    /\ pc = "idle"
    /\ r = ReqIdle
    /\ post = EmptyPost
    /\ nparts = 0
    /\ run = RunIdle
    /\ w = NewResponseWriter

\* The tasks that invoke helpers, and the tasks that start and stop tracking.
Callers == {"c1", "c2"}
Controllers == {"s1", "s2", "s3", "s4"}

ConsumerIdle == [pc |-> "none", x |-> None]
CallerIdle == [pc |-> "idle", stack |-> <<>>, enq |-> 0, steady |-> FALSE,
               seq |-> 0]
AuditIdle == [handoffs |-> <<>>, log |-> <<>>, made |-> 0]

\* var ( fnTrackChan = make(chan *fnTrack); startTracingOnce sync.Once;
\*       debugAllFunctions = false; Tracking = &sync.WaitGroup{} )
TrackIdle ==
    /\ debugAllFunctions = FALSE
    /\ startTracingOnce = "new"
    /\ consumers = 0
    /\ Tracking = 0
    /\ consumer = ConsumerIdle
    /\ audit = AuditIdle
    /\ ctl = [p \in Controllers |-> "idle"]
    /\ callers = [c \in Callers |-> CallerIdle]

\* No helper was called yet.
HcallIdle == [F |-> "", in |-> [type |-> "", v |-> <<>>], b64key |-> <<>>,
              aad |-> <<>>, iv |-> <<>>, out |-> <<>>, err |-> <<>>,
              work |-> {}]
HelpersIdle == hcall = HcallIdle

trackVars == <<debugAllFunctions, startTracingOnce, consumers, Tracking,
               consumer, audit, ctl, callers>>
cliVars == <<_templates, cli>>
renderVars == <<pc, r, post, nparts, run, w>>
registryVars == <<FnMap, funcMaps, defaultFnMapHelpText, help>>
configVars == <<EnableUnsafeFunctions, DebugHTTPRequests, fs>>

(***************************************************************************)
(* SpecRegistry: registrations and BuildFuncMap calls                      *)
(***************************************************************************)

\* Names, descriptions and callables a program registers.
FnNames == {"cmd", "upper", "plugin"}
FnCallables == {"cmd", "myfn"}

InitRegistry ==
    /\ RegistryIdle
    /\ EnableUnsafeFunctions = FALSE
    /\ DebugHTTPRequests = FALSE
    /\ fs = FileSystem
    /\ BuildIdle /\ CliIsIdle /\ RenderIdle /\ TrackIdle /\ HelpersIdle

\* FnMap.Fn(name, description, funct, unsafe)
Fn(name, description, funct, unsafe) ==
    /\ FnMap' = RegistryFn(FnMap, name, description, funct, unsafe)
    /\ UNCHANGED <<funcMaps, defaultFnMapHelpText, help, bt, configVars, cliVars, renderVars, trackVars, hcall>>

\* FnMap.BuildFuncMap(addUnsafeFuncs); the call and its result are recorded.
CallBuildFuncMap(addUnsafeFuncs) ==
    /\ funcMaps' = [called |-> TRUE, addUnsafeFuncs |-> addUnsafeFuncs,
                    t |-> FnMap, m |-> BuildFuncMap(FnMap, addUnsafeFuncs)]
    /\ UNCHANGED <<FnMap, defaultFnMapHelpText, help, bt, configVars, cliVars, renderVars, trackVars, hcall>>

NextRegistry ==
    \/ \E name \in FnNames, funct \in FnCallables, unsafe \in BOOLEAN :
          Fn(name, "custom", funct, unsafe)
    \/ \E addUnsafeFuncs \in BOOLEAN : CallBuildFuncMap(addUnsafeFuncs)

SpecRegistry == InitRegistry /\ [][NextRegistry]_vars

(***************************************************************************)
(* SpecHelp: registrations and calls that obtain the help text             *)
(***************************************************************************)

\* FnMap.HelpText(): the text is computed from the map as it is now.
CallHelpText ==
    /\ help' = HelpText(FnMap)
    /\ UNCHANGED <<FnMap, funcMaps, defaultFnMapHelpText, bt, configVars,
                   cliVars, renderVars, trackVars, hcall>>

\* fns(), the template function: return defaultFnMapHelpText
Callfns ==
    /\ help' = defaultFnMapHelpText
    /\ UNCHANGED <<FnMap, funcMaps, defaultFnMapHelpText, bt, configVars,
                   cliVars, renderVars, trackVars, hcall>>

NextHelp ==
    \/ \E name \in FnNames, funct \in FnCallables, unsafe \in BOOLEAN :
          Fn(name, "custom", funct, unsafe)
    \/ CallHelpText
    \/ Callfns

SpecHelp == InitRegistry /\ [][NextHelp]_vars

(***************************************************************************)
(* SpecBuild: BuildTemplate applied to bounded inputs                      *)
(***************************************************************************)

MaxFragments == 2
MaxFiles == 2

\* All maps from at most n of the keys to the values.
MapsUpTo(keys, values, n) ==
    UNION {[ks -> values] : ks \in {k \in SUBSET keys : Cardinality(k) <= n}}

\* All sequences of at most n of the elements.
SeqsUpTo(elems, n) == UNION {[1..k -> elems] : k \in 0..n}

BuildNames == {<<"post">>, <<"dir", "a.tpl">>}
BuildTexts == {<<>>, <<"A">>, <<"{{cmd}}">>, <<"{{bad">>, <<" ">>}
FragNames  == {<<"f1">>, <<"dir", "post">>, <<"a.tpl">>}
FragTexts  == {<<>>, <<"B">>, <<"{{bad">>}
FilePaths  == DOMAIN FileSystem

InitBuild ==
    /\ \E u \in BOOLEAN, name \in BuildNames, text \in BuildTexts,
          loaded \in MapsUpTo(FragNames, FragTexts, MaxFragments),
          local \in SeqsUpTo(FilePaths, MaxFiles) :
          bt = [BtIdle EXCEPT !.state = "called", !._unsafe = u, !.name = name,
                              !._template = text, !.loadedFiles = loaded,
                              !.localFiles = local]
    /\ RegistryIdle
    /\ EnableUnsafeFunctions = FALSE
    /\ DebugHTTPRequests = FALSE
    /\ fs = FileSystem
    /\ CliIsIdle /\ RenderIdle /\ TrackIdle /\ HelpersIdle

\* The call returns; order is the order the range over loadedFiles took.
BuildReturn(order) ==
    /\ bt.state = "called"
    /\ bt' = [bt EXCEPT !.state = "returned", !.order = order,
                 !.res = BuildTemplate(FnMap, fs, bt._unsafe, bt.name,
                                       bt._template, bt.loadedFiles, order,
                                       bt.localFiles)]
    /\ UNCHANGED <<registryVars, configVars, cliVars, renderVars, trackVars, hcall>>

NextBuild == \E order \in Orders(DOMAIN bt.loadedFiles) : BuildReturn(order)

SpecBuild == InitBuild /\ [][NextBuild]_vars

(***************************************************************************)
(* SpecCli: the one-shot command                                           *)
(***************************************************************************)

MaxFlags == 3

\* Values given to -t and to -f on the command line.
FlagTexts == {<<>>, <<"A">>, <<"B">>}
FlagFiles == {<<"a.tpl">>, <<"b.tpl">>, <<"dir", "a.tpl">>, <<"missing">>}

\* The data map main renders against (no stdin, no arguments): "map[]".
CliData == [kind |-> "object",
            s |-> Run(109, 1) \o Run(97, 1) \o Run(112, 1) \o Run(91, 1)
                  \o Run(93, 1)]

\* hex.EncodeToString(temple.Random(12)): the name of the root template.
RandomName == <<"5f2a9c0d7be3411806aa91c4">>

\* fmt.Sprintf("opt%d", n) for the index n of a flag.
OptName(n) == <<"opt" \o ToString(n)>>

InitCli ==
    /\ CliIsIdle
    /\ EnableUnsafeFunctions \in BOOLEAN
    /\ DebugHTTPRequests = FALSE
    /\ fs = FileSystem
    /\ RegistryIdle /\ BuildIdle /\ RenderIdle /\ TrackIdle /\ HelpersIdle

\* flag.Func("t", ...): append the string template.
FlagT(value) ==
    /\ cli.pc = "flags"
    /\ Len(_templates) < MaxFlags
    /\ _templates' = Append(_templates, [S |-> value, IsFile |-> FALSE])
    /\ UNCHANGED <<cli, registryVars, bt, configVars, renderVars, trackVars, hcall>>

\* flag.Func("f", ...): os.Stat the file, then append it; a path that cannot
\* be stat'ed is a flag error and the process exits.
FlagF(value) ==
    /\ cli.pc = "flags"
    /\ Len(_templates) < MaxFlags
    /\ IF value \notin DOMAIN fs \/ fs[value] = NoFile
       THEN /\ cli' = [cli EXCEPT !.pc = "usage"]
            /\ UNCHANGED _templates
       ELSE /\ _templates' = Append(_templates, [S |-> value, IsFile |-> TRUE])
            /\ UNCHANGED cli
    /\ UNCHANGED <<registryVars, bt, configVars, renderVars, trackVars, hcall>>

\* main's loop over _templates: the map of string templates.
RECURSIVE ArgTemplates(_, _)
ArgTemplates(templates, n) ==
    IF n >= Len(templates) THEN <<>>
    ELSE IF ~templates[n + 1].IsFile /\ Len(templates[n + 1].S) > 0
         THEN MapPut(ArgTemplates(templates, n + 1), OptName(n),
                     templates[n + 1].S)
         ELSE ArgTemplates(templates, n + 1)

\* main's loop over _templates: the list of template files.
RECURSIVE LocalTemplates(_)
LocalTemplates(templates) ==
    IF templates = <<>> THEN <<>>
    ELSE IF templates[1].IsFile
         THEN <<templates[1].S>> \o LocalTemplates(Tail(templates))
         ELSE LocalTemplates(Tail(templates))

\* The name main passes to ExecuteTemplate.
MainEntry(tplList) == tplList[1]

\* main with templates: BuildTemplate, panic on error.
MainBuild(order) ==
    /\ cli.pc = "flags"
    /\ Len(_templates) > 0
    /\ LET res == BuildTemplate(FnMap, fs, EnableUnsafeFunctions, RandomName,
                                <<>>, ArgTemplates(_templates, 0), order,
                                LocalTemplates(_templates))
       IN  cli' = [cli EXCEPT !.res = res,
                              !.pc = IF res.ok THEN "built" ELSE "panic"]
    /\ UNCHANGED <<_templates, registryVars, bt, configVars, renderVars, trackVars, hcall>>

\* main with templates: ExecuteTemplate(buf, tplList[0], data), panic on error.
MainExecute ==
    /\ cli.pc = "built"
    /\ LET x == TemplateExecuteTemplate(cli.res.tpl, MainEntry(cli.res.all),
                                        CliData)
       IN  cli' = [cli EXCEPT !.exec = x, !.buf = x.out,
                              !.pc = IF x.err = "" THEN "done" ELSE "panic"]
    /\ UNCHANGED <<_templates, registryVars, bt, configVars, renderVars, trackVars, hcall>>

\* main without templates: the data is printed as it is.
MainNoTemplates ==
    /\ cli.pc = "flags"
    /\ Len(_templates) = 0
    /\ cli' = [cli EXCEPT !.pc = "done"]
    /\ UNCHANGED <<_templates, registryVars, bt, configVars, renderVars, trackVars, hcall>>

NextCli ==
    \/ \E value \in FlagTexts : FlagT(value)
    \/ \E value \in FlagFiles : FlagF(value)
    \/ \E order \in Orders(DOMAIN ArgTemplates(_templates, 0)) : MainBuild(order)
    \/ MainExecute
    \/ MainNoTemplates

SpecCli == InitCli /\ [][NextCli]_vars

(***************************************************************************)
(* The http.ResponseWriter                                                 *)
(***************************************************************************)

\* w.Header().Set(key, value)
HeaderSet(rw, key, value) == [rw EXCEPT !.header = MapPut(rw.header, key, value)]

\* A mutant of WriteHeader: the status line is never written.
WriteHeaderDropped(rw, code) == rw

\* w.WriteHeader(code): every call is recorded; the first one is the status
\* line of the response.
WriteHeader(rw, code) == [rw EXCEPT !.calls = Append(rw.calls, code)]

\* w.Write(chunk): writes the status line 200 first if none was written.
Write(rw, chunk) ==
    LET started == IF rw.calls = <<>> THEN WriteHeader(rw, 200) ELSE rw
    IN  [started EXCEPT !.body = Append(started.body, chunk)]

\* The status of the response, 0 if no status line was written.
Status(rw) == IF rw.calls = <<>> THEN 0 ELSE rw.calls[1]

\* http.Error(w, msg, code)
HttpError(rw, msg, code) ==
    Write(WriteHeader(HeaderSet(HeaderSet(rw,
              "Content-Type", "text/plain; charset=utf-8"),
              "X-Content-Type-Options", "nosniff"), code),
          [kind |-> "text", text |-> msg])

RedirectURL == "https://www.youtube.com/watch?v=dQw4w9WgXcQ?autoplay=1"

\* bye(w, r): http.Redirect(w, r, url, http.StatusPermanentRedirect)
bye(rw, req) ==
    LET located == HeaderSet(rw, "Location", RedirectURL)
        typed   == IF req.Method \in {"GET", "HEAD"}
                   THEN HeaderSet(located, "Content-Type",
                                  "text/html; charset=utf-8")
                   ELSE located
        headed  == WriteHeader(typed, 308)
    IN  IF req.Method = "GET"
        THEN Write(headed, [kind |-> "text", text |-> RedirectURL])
        ELSE headed

\* A mutant of WriteJresp: the call of WriteHeader is forgotten.
WriteJrespNoHeader(rw, code, err) ==
    Write(rw, [kind |-> "jresp", Status |-> code, Error |-> err])

\* w.WriteHeader(code); json.NewEncoder(w).Encode(jresp{Status, Error})
WriteJresp(rw, code, err) ==
    Write(WriteHeader(rw, code),
          [kind |-> "jresp", Status |-> code, Error |-> err])

(***************************************************************************)
(* Conversions the handler applies                                         *)
(***************************************************************************)

\* strconv.ParseBool
ParseBoolTrue  == {"1", "t", "T", "TRUE", "true", "True"}
ParseBoolFalse == {"0", "f", "F", "FALSE", "false", "False"}
ParseBool(str) ==
    [value |-> str \in ParseBoolTrue,
     err   |-> IF str \in ParseBoolTrue \cup ParseBoolFalse THEN ""
               ELSE "invalid syntax"]

\* strconv.Itoa for n >= 0: the decimal digits, most significant first.
RECURSIVE Itoa(_)
Itoa(n) == IF n < 10 THEN <<n>> ELSE Itoa(n \div 10) \o <<n % 10>>

\* The number a digit sequence denotes.
RECURSIVE Atoi(_)
Atoi(digits) ==
    IF digits = <<>> THEN 0
    ELSE 10 * Atoi(SubSeq(digits, 1, Len(digits) - 1)) + digits[Len(digits)]

\* json.Unmarshal of a data part into interface{}, for the raw values drawn
\* here: a double-quoted run of plain bytes is a JSON string, whose value is
\* the bytes between the quotes; anything else fails to decode.
IsJSONString(raw) ==
    /\ BytesLen(raw) >= 2
    /\ raw[1].b = 34
    /\ raw[Len(raw)].b = 34
    /\ LET inner == BytesDrop(BytesHead(raw, BytesLen(raw) - 1), 1)
       IN  \A i \in 1..Len(inner) : inner[i].b >= 32 /\ inner[i].b \notin {34, 92}

\* case "data": json.Unmarshal(d, &post.Data); on error post.Data = string(d)
DecodeData(raw) ==
    IF IsJSONString(raw)
    THEN [kind |-> "string",
          s |-> BytesDrop(BytesHead(raw, BytesLen(raw) - 1), 1)]
    ELSE [kind |-> "string", s |-> raw]

\* http.DetectContentType over the first 512 bytes (the signatures the
\* outputs drawn here can meet: gzip, then binary or text).
IsBinaryByte(b) == b <= 8 \/ b = 11 \/ (14 <= b /\ b <= 26) \/ (28 <= b /\ b <= 31)
DetectContentType(data) ==
    LET head == BytesHead(data, 512)
    IN  IF Len(head) >= 3 /\ head[1] = [b |-> 31, n |-> 1]
           /\ head[2] = [b |-> 139, n |-> 1] /\ head[3].b = 8
        THEN "application/x-gzip"
        ELSE IF \E i \in 1..Len(head) : IsBinaryByte(head[i].b)
        THEN "application/octet-stream"
        ELSE "text/plain; charset=utf-8"

\* bytes.NewBuffer(make([]byte, 512)): a buffer that holds 512 zero bytes.
CtypeBufLen == 512
NewCtypeBuf == Run(0, CtypeBufLen)

(***************************************************************************)
(* SpecRender: RenderServer, one request after another                     *)
(***************************************************************************)

MaxParts == 3

\* 1 << 20: outputs below this length can be shown inline.
InlineLimit == 1048576

Methods == {"POST", "GET", "PUT"}

\* Inline template bodies, fragment names and bodies, data and option values
\* that requests carry.
RenderTexts == {<<>>, <<"A">>, <<"{{.}}">>, <<"A", "{{.}}">>, <<"{{cmd}}">>,
                <<"{{bad">>, <<"{{fail}}">>}
UploadNames == {<<"f1">>, <<"dir", "post">>}
UploadTexts == {<<>>, <<"B">>, <<"{{bad">>}
RawDatas    == {<<>>, Run(120, InlineLimit - 1),
                Run(34, 1) \o Run(49, 1) \o Run(34, 1)}
Outfiles    == {"", "out.txt"}
ForcedlTexts == {"true", "false", "maybe"}

\* The parts a multipart body is made of.
Parts ==
    [name : {"template"}, text : RenderTexts]
    \cup [name : {"data"}, raw : RawDatas]
    \cup [name : {"templates"}, filename : UploadNames, text : UploadTexts]
    \cup [name : {"outfile"}, value : Outfiles]
    \cup [name : {"forcedl"}, value : ForcedlTexts]
    \cup [name : {"comment"}]

\* The JSON bodies: objects that decode into jreq.
JsonBodies ==
    [Template : {<<>>, <<"A">>, <<"A", "{{.}}">>, <<"{{fail}}">>},
     Templates : MapsUpTo(UploadNames, {<<>>, <<"B">>}, 1),
     Data : {NilData, [kind |-> "string", s |-> Run(120, InlineLimit - 1)]},
     Outfile : Outfiles,
     ForceDL : BOOLEAN]

\* The requests: method, content type, whether dumping the request fails,
\* whether the multipart reader cannot be opened, and for other content
\* types whether the body is valid JSON and what it decodes to.
Requests ==
    [Method : Methods, Path : {"/render"}, multipart : {TRUE},
     dumpErr : BOOLEAN, mrErr : BOOLEAN, jsonOK : {FALSE}, json : {EmptyPost}]
    \cup [Method : Methods, Path : {"/render"}, multipart : {FALSE},
          dumpErr : BOOLEAN, mrErr : {FALSE}, jsonOK : {FALSE},
          json : {EmptyPost}]
    \cup [Method : {"POST"}, Path : {"/render"}, multipart : {FALSE},
          dumpErr : {FALSE}, mrErr : {FALSE}, jsonOK : {TRUE},
          json : JsonBodies]

\* The requests the mux hands to the handler registered under "/": every
\* path other than "/render".
UIRequests ==
    [Method : Methods, Path : {"/", "/index"}, multipart : {FALSE},
     dumpErr : BOOLEAN, mrErr : {FALSE}, jsonOK : {FALSE}, json : {EmptyPost}]

InitRender ==
    /\ RenderIdle
    /\ EnableUnsafeFunctions \in BOOLEAN
    /\ DebugHTTPRequests \in BOOLEAN
    /\ fs = FileSystem
    /\ RegistryIdle /\ BuildIdle /\ CliIsIdle /\ TrackIdle /\ HelpersIdle

renderFixed == <<registryVars, bt, configVars, cliVars, trackVars, hcall>>

\* The handler is entered with a request: the debug dump, the method check,
\* post := jreq{...}, and the opening of the multipart reader.
Begin(req) ==
    /\ pc \in {"idle", "done"}
    /\ r' = req
    /\ post' = EmptyPost
    /\ nparts' = 0
    /\ run' = RunIdle
    /\ IF DebugHTTPRequests /\ req.dumpErr
       THEN /\ w' = HttpError(NewResponseWriter, "", 500)
            /\ pc' = "done"
       ELSE IF req.Method # "POST"
       THEN /\ w' = bye(NewResponseWriter, req)
            /\ pc' = "done"
       ELSE IF req.multipart /\ req.mrErr
       THEN /\ w' = HttpError(NewResponseWriter, "no multipart boundary", 500)
            /\ pc' = "done"
       ELSE /\ w' = NewResponseWriter
            /\ pc' = IF req.multipart THEN "parts" ELSE "json"
    /\ UNCHANGED renderFixed

\* mr.NextPart() returns io.EOF: the loop ends.
PartsEOF ==
    /\ pc = "parts"
    /\ pc' = "build"
    /\ UNCHANGED <<r, post, nparts, run, w, renderFixed>>

\* mr.NextPart() returns another error.
PartsError ==
    /\ pc = "parts"
    /\ w' = HttpError(w, "multipart: NextPart: unexpected EOF", 500)
    /\ pc' = "done"
    /\ UNCHANGED <<r, post, nparts, run, renderFixed>>

\* The fields of post after the switch on part.FormName() for a part that
\* was read in full.
PartApply(p, part) ==
    CASE part.name = "template"  -> [p EXCEPT !.Template = part.text]
      [] part.name = "data"      -> [p EXCEPT !.Data = DecodeData(part.raw)]
      [] part.name = "templates" ->
            IF Len(part.text) > 0
            THEN [p EXCEPT !.Templates = MapPut(p.Templates, part.filename,
                                                part.text)]
            ELSE p
      [] part.name = "outfile"   -> [p EXCEPT !.Outfile = part.value]
      [] part.name = "forcedl"   ->
            [p EXCEPT !.ForceDL = ParseBool(part.value).value]
      [] OTHER                   -> p

\* The status RenderServer answers a forcedl part that is no boolean with.
ForcedlErrorStatus == 400

\* One round of the loop: mr.NextPart() returns a part; copyErr tells
\* whether io.Copy from the part fails.
NextPart(part, copyErr) ==
    /\ pc = "parts"
    /\ nparts < MaxParts
    /\ nparts' = nparts + 1
    /\ IF copyErr /\ part.name # "comment"
       THEN /\ w' = HttpError(w, "unexpected EOF", 500)
            /\ pc' = "done"
            /\ UNCHANGED post
       ELSE IF part.name = "forcedl" /\ ParseBool(part.value).err # ""
       THEN /\ w' = HttpError(w, ParseBool(part.value).err, ForcedlErrorStatus)
            /\ pc' = "done"
            /\ post' = PartApply(post, part)
       ELSE /\ post' = PartApply(post, part)
            /\ UNCHANGED <<w, pc>>
    /\ UNCHANGED <<r, run, renderFixed>>

\* json.NewDecoder(r.Body).Decode(&post)
DecodeJSON ==
    /\ pc = "json"
    /\ IF r.jsonOK
       THEN /\ post' = r.json
            /\ pc' = "build"
            /\ UNCHANGED w
       ELSE /\ w' = WriteJresp(w, 400, "invalid character")
            /\ pc' = "done"
            /\ UNCHANGED post
    /\ UNCHANGED <<r, nparts, run, renderFixed>>

\* A mutant of RenderUnsafe: a request field switches the unsafe functions on.
RenderUnsafeByRequest(policy, p) == policy \/ p.ForceDL

\* The _unsafe argument RenderServer gives BuildTemplate.
RenderUnsafe(policy, p) == policy

\* The status RenderServer answers a BuildTemplate error with.
BuildErrorStatus == 400

\* The status RenderServer answers an Execute error with.
ExecErrorStatus == 500

\* fnMap.BuildTemplate(EnableUnsafeFunctions, "post", post.Template,
\* post.Templates) and its error branch.
Build(order) ==
    /\ pc = "build"
    /\ LET unsafe == RenderUnsafe(EnableUnsafeFunctions, post)
           res == BuildTemplate(FnMap, fs, unsafe, <<"post">>, post.Template,
                                post.Templates, order, <<>>)
       IN  /\ run' = [run EXCEPT !.unsafe = unsafe, !.bt = res, !.built = TRUE]
           /\ IF res.ok
              THEN /\ pc' = "exec"
                   /\ UNCHANGED w
              ELSE /\ w' = WriteJresp(w, BuildErrorStatus, res.err)
                   /\ pc' = "done"
    /\ UNCHANGED <<r, post, nparts, renderFixed>>

\* tpl.Execute(io.MultiWriter(buf, ctypeBuf), post.Data) and its error branch.
Execute ==
    /\ pc = "exec"
    /\ LET x == TemplateExecute(run.bt.tpl, post.Data)
       IN  /\ run' = [run EXCEPT !.exec = x, !.executed = TRUE, !.buf = x.out,
                                 !.ctypeBuf = BytesCat(NewCtypeBuf, x.out)]
           /\ IF x.err = ""
              THEN /\ pc' = "respond"
                   /\ UNCHANGED w
              ELSE /\ w' = WriteJresp(w, ExecErrorStatus, x.err)
                   /\ pc' = "done"
    /\ UNCHANGED <<r, post, nparts, renderFixed>>

\* A mutant of ShowInline: the request shape is not looked at.
ShowInlineAnyShape(len, forceDL, multipart) == len < InlineLimit /\ ~forceDL

\* if (buf.Len() < (1 << 20)) && !post.ForceDL && multipart
ShowInline(len, forceDL, multipart) ==
    len < InlineLimit /\ ~forceDL /\ multipart

\* A mutant of OutfileOrDefault: the default file name is not applied.
OutfileAsGiven(outfile) == outfile

\* if post.Outfile == "" { post.Outfile = "rendered.out" }
OutfileOrDefault(outfile) == IF outfile = "" THEN "rendered.out" ELSE outfile

\* The two headers every successful response carries.
CacheHeaders(rw) ==
    HeaderSet(HeaderSet(rw, "Expires", "0"), "Content-Control",
              "private, no-transform, no-store, must-revalidate")

\* The download branch: the headers, the status line, io.Copy(w, buf). An
\* empty buffer is copied without a call of Write.
Download(rw, buf, ctypeBuf, outfile) ==
    LET h1 == HeaderSet(rw, "Content-Type", DetectContentType(ctypeBuf))
        h2 == HeaderSet(h1, "Content-Disposition",
                        <<"attachment; filename=", outfile>>)
        h3 == HeaderSet(h2, "Content-Transfer-Encoding", "binary")
        h4 == HeaderSet(h3, "Content-Length", Itoa(BytesLen(buf)))
        headed == WriteHeader(h4, 200)
    IN  IF BytesLen(buf) > 0
        THEN Write(headed, [kind |-> "bytes", data |-> buf])
        ELSE headed

\* The inline branch: the page template is built and executed over the
\* output; wrap is what the html template engine answers ("ok", or a failure
\* of BuildHTMLTemplate or of ExecuteTemplate).
Inline(rw, buf, wrap) ==
    IF wrap # "ok" THEN WriteHeader(rw, 500)
    ELSE Write(WriteHeader(rw, 200), [kind |-> "page", Output |-> buf])

\* The rest of the handler after a successful execution.
Respond(wrap) ==
    /\ pc = "respond"
    /\ LET outfile == OutfileOrDefault(post.Outfile)
           inline  == ShowInline(BytesLen(run.buf), post.ForceDL, r.multipart)
       IN  /\ post' = [post EXCEPT !.Outfile = outfile]
           /\ (~inline => wrap = "ok")
           /\ w' = IF inline
                   THEN Inline(CacheHeaders(w), run.buf, wrap)
                   ELSE Download(CacheHeaders(w), run.buf, run.ctypeBuf, outfile)
           /\ run' = [run EXCEPT !.shape =
                         IF ~inline THEN "download"
                         ELSE IF wrap = "ok" THEN "inline" ELSE "wrapfailed"]
    /\ pc' = "done"
    /\ UNCHANGED <<r, nparts, renderFixed>>

\* The form page the UI handler renders for the caller's address.
UIForm == <<"uiPage">>

\* UIPage's handler, whole: the debug dump (its error is dropped), the check
\* of method and path, then the form page built and executed by the html
\* template engine (wrap as in Inline).
UIPage(req, wrap) ==
    /\ pc \in {"idle", "done"}
    /\ r' = req
    /\ post' = EmptyPost
    /\ nparts' = 0
    /\ IF req.Method # "GET" \/ req.Path # "/"
       THEN /\ wrap = "ok"
            /\ w' = bye(NewResponseWriter, req)
            /\ run' = RunIdle
       ELSE /\ w' = Inline(NewResponseWriter, UIForm, wrap)
            /\ run' = [RunIdle EXCEPT !.shape =
                          IF wrap = "ok" THEN "ui" ELSE "uifailed"]
    /\ pc' = "done"
    /\ UNCHANGED renderFixed

NextRender ==
    \/ \E req \in Requests : Begin(req)
    \/ \E req \in UIRequests, wrap \in {"ok", "build", "exec"} : UIPage(req, wrap)
    \/ PartsEOF
    \/ PartsError
    \/ \E part \in Parts, copyErr \in BOOLEAN : NextPart(part, copyErr)
    \/ DecodeJSON
    \/ \E order \in Orders(DOMAIN post.Templates) : Build(order)
    \/ Execute
    \/ \E wrap \in {"ok", "build", "exec"} : Respond(wrap)

SpecRender == InitRender /\ [][NextRender]_vars

(***************************************************************************)
(* SpecTrack: the usage tracker, helpers invoked by concurrent callers     *)
(***************************************************************************)

\* Records the callers make in all.
MaxRecords == 3

\* Helpers that end in a deferred trackUsage call, with the shapes of the
\* input they are invoked on.
Invocations == {<<"b64dec", "string">>, <<"gunzip", "string">>,
                <<"cmd", "string">>}

\* The alwaysTrack argument the helper passes to trackUsage.
AlwaysTrack(F) ==
    F \in {"http", "userinput", "rawfile", "textfile", "writefile", "env", "cmd"}

\* The helpers a helper's body calls on an input of the given shape: gunzip
\* and decrypt run b64dec on a string input.
NestedCalls(F, shape) ==
    IF F \in {"gunzip", "decrypt"} /\ shape = "string"
    THEN <<"b64dec">> ELSE <<>>

Frame(F, shape) == [F |-> F, shape |-> shape, nested |-> FALSE]

Top(stack) == stack[Len(stack)]

\* The err argument of the deferred trackUsage call. The arguments of a
\* deferred call are evaluated when the defer statement runs, the first
\* statement of every helper: err is nil then (env passes nil itself).
DeferredErr == <<>>

\* fmt.Sprintf("%#v", output) for the output argument of helper F, out being
\* what the helper returns. _http passes out itself, nil when the defer
\* statement runs; writefile passes ""; the others pass &out, which prints
\* as & and the value for a byte slice and as an address for a string, an
\* interface value or a pointer.
Sprintf(F, out) ==
    CASE F = "http" -> [fmt |-> "(*http.Response)(nil)", v |-> <<>>]
      [] F = "writefile" -> [fmt |-> "\"\"", v |-> <<>>]
      [] F \in {"togob", "b64dec", "hexdec", "gzip", "gunzip", "rawfile",
                "encrypt", "decrypt"} -> [fmt |-> "&%#v", v |-> out]
      [] OTHER -> [fmt |-> "(*T)(0xc000010250)", v |-> <<>>]

\* &fnTrack{T: time.Now(), F: _fn, Args: args[:], Output: ..., Err: err}:
\* the record a caller hands over, told apart from the caller's other
\* records by its number.
fnTrack(F, c, seq) ==
    [F |-> F, by |-> c, seq |-> seq, Err |-> DeferredErr,
     Output |-> Sprintf(F, hcall.out)]

InitTrack ==
    /\ TrackIdle /\ HelpersIdle
    /\ EnableUnsafeFunctions = FALSE
    /\ DebugHTTPRequests = FALSE
    /\ fs = FileSystem
    /\ RegistryIdle /\ BuildIdle /\ CliIsIdle /\ RenderIdle /\ HelpersIdle

trackFixed == <<registryVars, bt, configVars, cliVars, renderVars, hcall>>

\* The frames of helper F entered on an input of the given shape, up to
\* the first deferred trackUsage call that runs: the helper's own frame and,
\* where its body calls a nested helper first, that helper's.
Enter(F, shape) ==
    IF NestedCalls(F, shape) # <<>>
    THEN <<[Frame(F, shape) EXCEPT !.nested = TRUE],
           Frame(NestedCalls(F, shape)[1], "string")>>
    ELSE <<Frame(F, shape)>>

\* The frames of the invocations in progress: each makes one record at most.
RECURSIVE FramesOpen(_)
FramesOpen(cs) ==
    IF cs = {} THEN 0
    ELSE LET c == CHOOSE x \in cs : TRUE
         IN  Len(callers[c].stack) + FramesOpen(cs \ {c})

\* A caller invokes helper F on an input of the given shape; the body runs
\* up to the first deferred trackUsage call. The caller notes whether
\* tracking is started (flag set, consumer running).
Invoke(c, F, shape) ==
    /\ callers[c].pc = "idle"
    /\ audit.made + FramesOpen(Callers) + Len(Enter(F, shape)) <= MaxRecords
    /\ callers' = [callers EXCEPT ![c] =
          [pc |-> "track", stack |-> Enter(F, shape), enq |-> 0,
           steady |-> debugAllFunctions /\ consumers > 0,
           seq |-> @.seq]]
    /\ UNCHANGED <<debugAllFunctions, startTracingOnce, consumers, Tracking,
                   consumer, audit, ctl, trackFixed>>

\* A mutant of TrackGate: alwaysTrack is ignored.
TrackGateFlagOnly(flag, alwaysTrack) == flag

\* if debugAllFunctions || alwaysTrack
TrackGate(flag, alwaysTrack) == flag \/ alwaysTrack

\* trackUsage up to the channel send: the gate, Tracking.Add(1), the record
\* is made, and the caller blocks on the unbuffered channel with it.
trackUsage(c) ==
    /\ callers[c].pc = "track"
    /\ IF TrackGate(debugAllFunctions, AlwaysTrack(Top(callers[c].stack).F))
       THEN /\ Tracking' = Tracking + 1
            /\ audit' = [audit EXCEPT !.made = @ + 1]
            /\ callers' = [callers EXCEPT ![c].pc = "send",
                                          ![c].seq = @ + 1]
       ELSE /\ callers' = [callers EXCEPT ![c].pc = "ret"]
            /\ UNCHANGED <<Tracking, audit>>
    /\ UNCHANGED <<debugAllFunctions, startTracingOnce, consumers, consumer,
                   ctl, trackFixed>>

\* The record a caller blocked in the send holds.
Sending(c) == fnTrack(Top(callers[c].stack).F, c, callers[c].seq)

\* for x := range fnTrackChan: the consumer receives from a blocked sender;
\* the send completes and trackUsage returns.
Handoff(c) ==
    /\ consumer.pc = "recv"
    /\ callers[c].pc = "send"
    /\ consumer' = [pc |-> "log", x |-> Sending(c)]
    /\ callers' = [callers EXCEPT ![c].pc = "ret", ![c].enq = @ + 1]
    /\ audit' = [audit EXCEPT !.handoffs = Append(@, Sending(c))]
    /\ UNCHANGED <<debugAllFunctions, startTracingOnce, consumers, Tracking,
                   ctl, trackFixed>>

\* A mutant of LogWarning: the line is not written.
LogWarningLost(lines, x) == lines

\* j, _ := json.Marshal(x); log.Warning(string(j))
LogWarning(lines, x) == Append(lines, x)

\* The consumer logs the record it holds.
ConsumerLog ==
    /\ consumer.pc = "log"
    /\ audit' = [audit EXCEPT !.log = LogWarning(@, consumer.x)]
    /\ consumer' = [pc |-> "done", x |-> None]
    /\ UNCHANGED <<debugAllFunctions, startTracingOnce, consumers, Tracking,
                   ctl, callers, trackFixed>>

\* Tracking.Done(), and the consumer is back at the head of its loop.
ConsumerDone ==
    /\ consumer.pc = "done"
    /\ Tracking' = Tracking - 1
    /\ consumer' = [pc |-> "recv", x |-> None]
    /\ UNCHANGED <<debugAllFunctions, startTracingOnce, consumers, audit, ctl,
                   callers, trackFixed>>

\* The deferred call is over: the helper returns, to the caller of the
\* invocation or to the helper that called it, whose body runs to its end,
\* where its own deferred trackUsage call runs.
Return(c) ==
    /\ callers[c].pc = "ret"
    /\ LET stack == callers[c].stack
       IN  IF Len(stack) = 1
           THEN callers' = [callers EXCEPT ![c].pc = "idle",
                                           ![c].stack = <<>>,
                                           ![c].enq = 0,
                                           ![c].steady = FALSE]
           ELSE callers' = [callers EXCEPT ![c].pc = "track",
                               ![c].stack = SubSeq(stack, 1, Len(stack) - 1)]
    /\ UNCHANGED <<debugAllFunctions, startTracingOnce, consumers, Tracking,
                   consumer, audit, ctl, trackFixed>>

\* StartTracking, first statement: debugAllFunctions = true
StartTrackingWrite(p) ==
    /\ ctl[p] = "idle"
    /\ debugAllFunctions' = TRUE
    /\ ctl' = [ctl EXCEPT ![p] = "do"]
    /\ UNCHANGED <<startTracingOnce, consumers, Tracking, consumer, audit,
                   callers, trackFixed>>

\* A mutant of OnceDo: the function is run on every call.
OnceDoEveryCall(once) == TRUE

\* sync.Once.Do(f) runs f if and only if Do was not called before.
OnceDo(once) == once = "new"

\* StartTracking, second statement: startTracingOnce.Do(usageDebugger);
\* usageDebugger starts the consumer goroutine.
StartTrackingDo(p) ==
    /\ ctl[p] \in {"do", "do, stopped"}
    /\ IF OnceDo(startTracingOnce)
       THEN /\ consumers' = consumers + 1
            /\ consumer' = IF consumer.pc = "none"
                           THEN [pc |-> "recv", x |-> None] ELSE consumer
       ELSE UNCHANGED <<consumers, consumer>>
    /\ startTracingOnce' = "done"
    /\ ctl' = [ctl EXCEPT ![p] = "idle"]
    /\ UNCHANGED <<debugAllFunctions, Tracking, audit, callers, trackFixed>>

\* StopTracking: debugAllFunctions = false. Noted for the record: the
\* StartTracking calls and helper invocations it overlaps.
StopTracking(p) ==
    /\ ctl[p] = "idle"
    /\ debugAllFunctions' = FALSE
    /\ ctl' = [q \in Controllers |->
                 IF ctl[q] = "do" THEN "do, stopped" ELSE ctl[q]]
    /\ callers' = [c \in Callers |-> [callers[c] EXCEPT !.steady = FALSE]]
    /\ UNCHANGED <<startTracingOnce, consumers, Tracking, consumer, audit,
                   trackFixed>>

\* The task that starts and stops tracking while helpers are invoked.
TrackController == "s1"

NextTrack ==
    \/ \E c \in Callers, i \in Invocations : Invoke(c, i[1], i[2])
    \/ \E c \in Callers : trackUsage(c)
    \/ \E c \in Callers : Handoff(c)
    \/ ConsumerLog
    \/ ConsumerDone
    \/ \E c \in Callers : Return(c)
    \/ StartTrackingWrite(TrackController)
    \/ StartTrackingDo(TrackController)
    \/ StopTracking(TrackController)

SpecTrack == InitTrack /\ [][NextTrack]_vars

\* The consumer goroutine, once started, is scheduled again and again, and
\* a StartTracking call that has set the flag goes on to its second statement.
SpecTrackFair ==
    /\ SpecTrack
    /\ WF_vars(\E c \in Callers : Handoff(c))
    /\ WF_vars(ConsumerLog)
    /\ WF_vars(ConsumerDone)
    /\ WF_vars(StartTrackingDo(TrackController))

\* Concurrent StartTracking and StopTracking calls, no helper invoked.
NextControl ==
    \/ \E p \in Controllers : StartTrackingWrite(p)
    \/ \E p \in Controllers : StartTrackingDo(p)
    \/ \E p \in Controllers : StopTracking(p)

SpecControl == InitTrack /\ [][NextControl]_vars

(***************************************************************************)
(* SpecMain: the one-shot command and the tracker. main starts tracking,   *)
(* executes the template, whose helpers it invokes one after another,      *)
(* waits if -D is given, writes the output and the process ends.           *)
(***************************************************************************)

\* The goroutine of main.
MainCaller == "c1"

\* DebugHTTPRequests holds *debug: if *debug { DebugHTTPRequests = true }.
InitMain ==
    /\ cli = [CliIdle EXCEPT !.pc = "StartTracking"]
    /\ _templates = <<>>
    /\ DebugHTTPRequests \in BOOLEAN
    /\ EnableUnsafeFunctions = FALSE
    /\ fs = FileSystem
    /\ TrackIdle /\ HelpersIdle
    /\ RegistryIdle /\ BuildIdle /\ RenderIdle

mainFixed == <<registryVars, bt, configVars, _templates, renderVars, hcall>>

\* temple.StartTracking(), with no other goroutine running yet.
MainStartTracking ==
    /\ cli.pc = "StartTracking"
    /\ debugAllFunctions' = TRUE
    /\ IF OnceDo(startTracingOnce)
       THEN consumers' = consumers + 1 /\ consumer' = [pc |-> "recv", x |-> None]
       ELSE UNCHANGED <<consumers, consumer>>
    /\ startTracingOnce' = "done"
    /\ cli' = [cli EXCEPT !.pc = "ExecuteTemplate"]
    /\ UNCHANGED <<Tracking, audit, ctl, callers, mainFixed>>

\* tpl.ExecuteTemplate has returned: if *debug { temple.Tracking.Wait() }
MainExecuted ==
    /\ cli.pc = "ExecuteTemplate"
    /\ callers[MainCaller].pc = "idle"
    /\ cli' = [cli EXCEPT !.pc = IF DebugHTTPRequests THEN "Wait" ELSE "emit"]
    /\ UNCHANGED <<trackVars, mainFixed>>

\* A mutant of WaitReturns: Wait returns at once.
WaitReturnsAtOnce(n) == TRUE

\* sync.WaitGroup.Wait returns when the counter is zero.
WaitReturns(n) == n = 0

\* temple.Tracking.Wait() returns.
MainWait ==
    /\ cli.pc = "Wait"
    /\ WaitReturns(Tracking)
    /\ cli' = [cli EXCEPT !.pc = "emit"]
    /\ UNCHANGED <<trackVars, mainFixed>>

\* The output is written and main returns: the process and its consumer
\* goroutine end.
MainEmit ==
    /\ cli.pc = "emit"
    /\ cli' = [cli EXCEPT !.pc = "exited"]
    /\ UNCHANGED <<trackVars, mainFixed>>

NextMain ==
    \/ MainStartTracking
    \/ cli.pc = "ExecuteTemplate"
          /\ \E i \in Invocations : Invoke(MainCaller, i[1], i[2])
    \/ trackUsage(MainCaller)
    \/ Handoff(MainCaller)
    \/ Return(MainCaller)
    \/ cli.pc # "exited" /\ ConsumerLog
    \/ cli.pc # "exited" /\ ConsumerDone
    \/ MainExecuted
    \/ MainWait
    \/ MainEmit

SpecMain == InitMain /\ [][NextMain]_vars

(***************************************************************************)
(* SpecHelpers: the helpers with a polymorphic data argument               *)
(***************************************************************************)

\* A value of Go type t, with its contents as bytes where it has any.
Val(t, v) == [type |-> t, v |-> v]

\* A plain byte, a byte of AES-GCM ciphertext and a byte of its tag.
Plain(n) == [kind |-> "plain", n |-> n]

\* nil, as an error and as an output.
NoErr == <<>>
NilOut == <<>>

\* The types a helper's type switch has a case for.
Cases(F) ==
    CASE F = "fromjson" ->
            {"string", "[]uint8", "*bytes.Buffer", "*http.Response"}
      [] F = "string" ->
            {"string", "int", "bool", "[]uint8", "*bytes.Buffer"}
      [] OTHER -> {"string", "[]uint8", "*bytes.Buffer"}

\* fmt.Errorf("invalid argument %T, supported types: ...", t), with the
\* list of types the helper's default branch prints.
TypeErr(F, in) ==
    <<"invalid argument ", in.type, ", supported types: ",
      CASE F \in {"hexenc", "hexdec", "encrypt"} -> "string or []byte"
        [] F = "gunzip" -> "io.Reader or []byte"
        [] F = "string" -> "int, bool and []byte"
        [] OTHER -> "io.Reader, string or []byte">>

\* The default branch of the type switch where the helper has one that
\* returns: default: err = fmt.Errorf(...); return nil, err
DefaultBranch(F, in) == [out |-> NilOut, err |-> TypeErr(F, in), work |-> {}]

\* What a helper does with an input its type switch has no case for; net
\* tells whether the network answers. _http's default branch sets err and
\* goes on: NewRequest overwrites err and the request is sent without a
\* body. fromgob and fromjson have no default branch: fromgob decodes from a
\* nil reader, fromjson returns nil, nil. writefile has opened (created) the
\* file before its switch.
Unsupported(F, in, net) ==
    CASE F = "http" ->
            IF net = "up"
            THEN [out |-> <<[kind |-> "response", body |-> <<>>]>>,
                  err |-> NoErr, work |-> {"request"}]
            ELSE [out |-> NilOut, err |-> <<"dial tcp: connection refused">>,
                  work |-> {"request"}]
      [] F = "fromgob" ->
            [out |-> NilOut,
             err |-> <<"panic: invalid memory address or nil pointer dereference">>,
             work |-> {"decode"}]
      [] F = "fromjson" -> [out |-> NilOut, err |-> NoErr, work |-> {}]
      [] F = "writefile" ->
            [DefaultBranch(F, in) EXCEPT !.work = {"open file"}]
      [] OTHER -> DefaultBranch(F, in)

\* hex.EncodeToString: two lower-case digits for every byte.
HexEnc(bytes) ==
    LET digit(d) == IF d < 10 THEN 48 + d ELSE 87 + d
    IN  [i \in 1..(2 * Len(bytes)) |->
            Plain(digit(IF i % 2 = 1 THEN bytes[(i + 1) \div 2].n \div 16
                        ELSE bytes[i \div 2].n % 16))]

\* hex.DecodeString, hex.Decode and hex.NewDecoder on a whole text.
HexDec(text) ==
    LET val(c) == IF 48 <= c /\ c <= 57 THEN c - 48
                  ELSE IF 97 <= c /\ c <= 102 THEN c - 87
                  ELSE IF 65 <= c /\ c <= 70 THEN c - 55
                  ELSE -1
    IN  IF \E i \in 1..Len(text) : text[i].kind # "plain" \/ val(text[i].n) < 0
        THEN [bytes |-> <<>>, err |-> <<"encoding/hex: invalid byte">>]
        ELSE IF Len(text) % 2 = 1
        THEN [bytes |-> <<>>, err |-> <<"encoding/hex: odd length hex string">>]
        ELSE [bytes |-> [i \in 1..(Len(text) \div 2) |->
                            Plain(16 * val(text[2 * i - 1].n) + val(text[2 * i].n))],
              err |-> NoErr]

\* What a helper does with an input its switch has a case for. hexenc
\* encodes the bytes of every shape. hexdec decodes; its string case returns
\* b[:n] with n still zero, the other two cases the decoded bytes. The
\* other helpers: the work of the body, whose result stands for the
\* decoded, encoded or sent value.
Supported(F, in) ==
    CASE F = "hexenc" -> [out |-> HexEnc(in.v), err |-> NoErr, work |-> {F}]
      [] F = "hexdec" ->
            IF HexDec(in.v).err # NoErr
            THEN [out |-> NilOut, err |-> HexDec(in.v).err, work |-> {F}]
            ELSE [out |-> IF in.type = "string"
                          THEN SubSeq(HexDec(in.v).bytes, 1, 0)
                          ELSE HexDec(in.v).bytes,
                  err |-> NoErr, work |-> {F}]
      [] OTHER -> [out |-> <<[kind |-> "result", of |-> F, arg |-> in.v]>>,
                   err |-> NoErr, work |-> {F}]

\* base64.StdEncoding applied to bytes: the text that decodes to them.
B64Enc(bytes) == <<[kind |-> "b64", of |-> bytes]>>

\* base64.StdEncoding.DecodeString, and Decode in b64dec's string case.
B64Dec(text) ==
    IF text = <<>> THEN [bytes |-> <<>>, err |-> NoErr]
    ELSE IF Len(text) = 1 /\ text[1].kind = "b64"
    THEN [bytes |-> text[1].of, err |-> NoErr]
    ELSE [bytes |-> <<>>, err |-> <<"illegal base64 data at input byte 0">>]

\* aead.NonceSize() and aead.Overhead() of cipher.NewGCM.
NonceSize == 12
TagSize == 16

\* aead.Seal(nil, iv, ptxt, aad): one ciphertext byte per plaintext byte,
\* then the tag, which binds key, nonce, associated data and plaintext.
Seal(key, iv, ptxt, aad) ==
    [i \in 1..Len(ptxt) |->
        [kind |-> "ct", key |-> key, iv |-> iv, i |-> i, p |-> ptxt[i]]]
    \o [j \in 1..TagSize |->
        [kind |-> "tag", key |-> key, iv |-> iv, aad |-> aad, p |-> ptxt,
         j |-> j]]

\* aead.Open(nil, nonce, ctxt, aad): the plaintext if ctxt is what Seal
\* made of it under this key, nonce and associated data.
Open(key, nonce, ctxt, aad) ==
    LET n == Len(ctxt) - TagSize
        p == IF n >= 0 /\ \A i \in 1..n : ctxt[i].kind = "ct"
             THEN [i \in 1..n |-> ctxt[i].p] ELSE <<>>
    IN  IF n >= 0 /\ ctxt = Seal(key, nonce, p, aad)
        THEN [out |-> p, err |-> NoErr]
        ELSE [out |-> NilOut,
              err |-> <<"cipher: message authentication failed">>]

\* key, err := base64.StdEncoding.DecodeString(b64key); aes.NewCipher(key);
\* cipher.NewGCM(cb): the error of the first step that fails. AES has keys of
\* 16, 24 and 32 bytes.
KeyErr(b64key) ==
    IF B64Dec(b64key).err # NoErr THEN B64Dec(b64key).err
    ELSE IF Len(B64Dec(b64key).bytes) \notin {16, 24, 32}
    THEN <<"crypto/aes: invalid key size">>
    ELSE NoErr

\* A mutant of EncryptOut: the nonce is written before the ciphertext.
EncryptOutNonceFirst(ctxt, iv) == iv \o ctxt

\* out = append(ctxt, iv...)
EncryptOut(ctxt, iv) == ctxt \o iv

\* encrypt(in, b64key, aad), iv being what Random(aead.NonceSize()) returns.
encrypt(in, b64key, aad, iv) ==
    IF in.type \notin Cases("encrypt") THEN DefaultBranch("encrypt", in)
    ELSE IF KeyErr(b64key) # NoErr
    THEN [out |-> NilOut, err |-> KeyErr(b64key), work |-> {"key"}]
    ELSE [out |-> EncryptOut(Seal(B64Dec(b64key).bytes, iv, in.v, aad), iv),
          err |-> NoErr, work |-> {"key", "seal"}]

\* A mutant of ErrUnexpectedEOF: io.EOF.
ErrEOF == <<"EOF">>

\* io.ErrUnexpectedEOF
ErrUnexpectedEOF == <<"unexpected EOF">>

\* decrypt(in, b64key, aad). A string input is base64-decoded by b64dec; the
\* switch has no default branch, so any other type goes on with ctxt nil.
decrypt(in, b64key, aad) ==
    LET dec  == IF in.type = "string" THEN B64Dec(in.v)
                ELSE [bytes |-> IF in.type \in Cases("decrypt") THEN in.v
                                ELSE <<>>,
                      err |-> NoErr]
        ctxt == dec.bytes
        l    == Len(ctxt)
    IN  IF dec.err # NoErr
        THEN [out |-> NilOut, err |-> dec.err, work |-> {"b64dec"}]
        ELSE IF KeyErr(b64key) # NoErr
        THEN [out |-> NilOut, err |-> KeyErr(b64key), work |-> {"key"}]
        ELSE IF l < NonceSize
        THEN [out |-> NilOut, err |-> ErrUnexpectedEOF, work |-> {"key"}]
        ELSE Open(B64Dec(b64key).bytes, SubSeq(ctxt, l - NonceSize + 1, l),
                  SubSeq(ctxt, 1, l - NonceSize), aad)
             @@ [work |-> {"key", "open"}]

\* The helpers called through the generic action, and the inputs, keys,
\* associated data and nonces the calls are made with.
PolyHelpers == {"http", "fromgob", "fromjson", "fromyaml", "b64enc", "b64dec",
                "hexenc", "hexdec", "gzip", "gunzip", "writefile", "string"}
Bytes(ns) == [i \in 1..Len(ns) |-> Plain(ns[i])]
HelperInputs ==
    {Val(t, v) : t \in {"string", "[]uint8", "*bytes.Buffer"},
                 v \in {<<>>, Bytes(<<7, 8>>)}}
    \cup {Val("float64", <<>>), Val("*http.Response", <<>>), Val("int", <<>>)}
Key(n, b) == [i \in 1..n |-> Plain(b)]
KeyTexts == {B64Enc(Key(16, 1)), B64Enc(Key(16, 2)), B64Enc(Key(32, 3)),
             B64Enc(Key(5, 1)), Bytes(<<33>>)}
Aads == {<<>>, Bytes(<<65>>)}
Nonces == {[i \in 1..NonceSize |-> Plain(1)], [i \in 1..NonceSize |-> Plain(2)]}

\* What the call before returned, cut to one byte less than a nonce and to
\* the bytes of a nonce, as bytes, as a stream and as base64 text.
Truncated(out) ==
    IF Len(out) < NonceSize THEN {}
    ELSE {Val(t, SubSeq(out, 1, n)) :
             t \in {"[]uint8", "*bytes.Buffer"}, n \in {NonceSize - 1, NonceSize}}
         \cup {Val("string", B64Enc(SubSeq(out, 1, n))) :
                  n \in {NonceSize - 1, NonceSize}}

\* For hexdec after a hexenc call, the hex text that call returned, as a
\* string, as bytes and as a stream.
Encoded(F) ==
    IF F = "hexdec" /\ hcall.F = "hexenc"
    THEN {Val(t, hcall.out) : t \in Cases("hexdec")}
    ELSE {}

InitHelpers ==
    /\ HelpersIdle
    /\ EnableUnsafeFunctions = FALSE
    /\ DebugHTTPRequests = FALSE
    /\ fs = FileSystem
    /\ RegistryIdle /\ BuildIdle /\ CliIsIdle /\ RenderIdle /\ TrackIdle

helperFixed == <<registryVars, bt, configVars, cliVars, renderVars, trackVars>>

\* A helper other than encrypt and decrypt is called on an input.
CallHelper(F, in, net) ==
    /\ hcall' = [F |-> F, in |-> in, b64key |-> <<>>, aad |-> <<>>,
                 iv |-> <<>>]
                @@ (IF in.type \in Cases(F) THEN Supported(F, in)
                    ELSE Unsupported(F, in, net))
    /\ UNCHANGED helperFixed

\* encrypt is called.
CallEncrypt(in, b64key, aad, iv) ==
    /\ hcall' = [F |-> "encrypt", in |-> in, b64key |-> b64key, aad |-> aad,
                 iv |-> iv] @@ encrypt(in, b64key, aad, iv)
    /\ UNCHANGED helperFixed

\* decrypt is called, on an input of its own or on what the call before
\* returned, as bytes or as their base64 text.
CallDecrypt(in, b64key, aad) ==
    /\ hcall' = [F |-> "decrypt", in |-> in, b64key |-> b64key, aad |-> aad,
                 iv |-> <<>>] @@ decrypt(in, b64key, aad)
    /\ UNCHANGED helperFixed

NextHelpers ==
    \/ \E F \in PolyHelpers :
          \E in \in HelperInputs \cup Encoded(F),
             net \in (IF F = "http" THEN {"up", "down"} ELSE {"up"}) :
             CallHelper(F, in, net)
    \/ \E in \in HelperInputs, b64key \in KeyTexts, aad \in Aads, iv \in Nonces :
          CallEncrypt(in, b64key, aad, iv)
    \/ \E in \in HelperInputs \cup {Val("[]uint8", hcall.out),
                                    Val("string", B64Enc(hcall.out))}
                  \cup Truncated(hcall.out),
          b64key \in KeyTexts, aad \in Aads :
          CallDecrypt(in, b64key, aad)

SpecHelpers == InitHelpers /\ [][NextHelpers]_vars

(***************************************************************************)
(* SpecAudit: helpers called with the tracker at work, the result of the   *)
(* call next to the record it leaves                                       *)
(***************************************************************************)

\* Calls made in all.
MaxCalls == 1

\* rawfile(in): os.Open and ioutil.ReadAll.
rawfile(files, p) ==
    IF p \notin DOMAIN files \/ files[p] = NoFile
    THEN [out |-> NilOut, err |-> <<"open: no such file or directory">>,
          work |-> {"open"}]
    ELSE [out |-> <<[kind |-> "file", of |-> files[p]]>>, err |-> NoErr,
          work |-> {"open", "read"}]

\* The key, associated data and nonce of the encrypt and decrypt calls.
AuditKey == B64Enc(Key(16, 1))
AuditNonce == [i \in 1..NonceSize |-> Plain(1)]

\* What helper F returns for the input; userinput, textfile, env and cmd,
\* like the case branches of the polymorphic helpers, by a result that
\* stands for the value.
Result(F, in, net) ==
    CASE F = "encrypt" -> encrypt(in, AuditKey, <<>>, AuditNonce)
      [] F = "decrypt" -> decrypt(in, AuditKey, <<>>)
      [] F = "rawfile" -> rawfile(fs, in.v)
      [] F \in PolyHelpers /\ in.type \notin Cases(F) -> Unsupported(F, in, net)
      [] OTHER -> Supported(F, in)

\* The calls made: every helper that passes alwaysTrack = true, encrypt and
\* decrypt, and two more that do not; on inputs on which no helper calls
\* another one.
AuditCalls ==
    {<<F, in, "up">> :
        F \in {"encrypt", "decrypt", "writefile", "http", "b64dec", "fromjson"},
        in \in {Val("[]uint8", Bytes(<<7, 8>>)), Val("float64", <<>>)}}
    \cup {<<"http", Val("[]uint8", Bytes(<<7, 8>>)), "down">>}
    \cup {<<F, Val("string", p), "up">> :
            F \in {"rawfile", "textfile"}, p \in {<<"a.tpl">>, <<"missing">>}}
    \cup {<<F, Val("string", <<>>), "up">> : F \in {"userinput", "env", "cmd"}}

\* A caller calls helper F: the defer statement, then the body, up to the
\* deferred trackUsage call.
Call(c, F, in, net) ==
    /\ callers[c].pc = "idle"
    /\ audit.made < MaxCalls
    /\ hcall' = [F |-> F, in |-> in, b64key |-> <<>>, aad |-> <<>>,
                 iv |-> <<>>] @@ Result(F, in, net)
    /\ callers' = [callers EXCEPT ![c] =
          [pc |-> "track", stack |-> <<Frame(F, in.type)>>, enq |-> 0,
           steady |-> debugAllFunctions /\ consumers > 0, seq |-> @.seq]]
    /\ UNCHANGED <<debugAllFunctions, startTracingOnce, consumers, Tracking,
                   consumer, audit, ctl, registryVars, bt, configVars,
                   cliVars, renderVars>>

NextAudit ==
    \/ \E call \in AuditCalls : Call(MainCaller, call[1], call[2], call[3])
    \/ trackUsage(MainCaller)
    \/ Handoff(MainCaller)
    \/ ConsumerLog
    \/ ConsumerDone
    \/ Return(MainCaller)
    \/ StartTrackingWrite(TrackController)
    \/ StartTrackingDo(TrackController)
    \/ StopTracking(TrackController)

SpecAudit == InitTrack /\ [][NextAudit]_vars

(***************************************************************************)
(* Properties of the registry (SpecRegistry)                               *)
(***************************************************************************)

\* C1: for every registry reachable by Fn registrations, the map returned by
\* BuildFuncMap(false) holds exactly the names whose descriptor has
\* Unsafe = false, each bound to its callable (no unsafe name is present),
\* and the map returned by BuildFuncMap(true) holds every registered name.
C1_CallableSetBoundary ==
    /\ funcMaps.called =>
          /\ DOMAIN funcMaps.m \subseteq DOMAIN funcMaps.t
          /\ \A n \in DOMAIN funcMaps.t :
                /\ funcMaps.addUnsafeFuncs => n \in DOMAIN funcMaps.m
                /\ ~funcMaps.addUnsafeFuncs =>
                      (n \in DOMAIN funcMaps.m <=> funcMaps.t[n].Unsafe = FALSE)
          /\ \A n \in DOMAIN funcMaps.m : funcMaps.m[n] = funcMaps.t[n]._fn
    /\ \A n \in DOMAIN FnMap :
          /\ FnMap[n].Unsafe => n \notin DOMAIN BuildFuncMap(FnMap, FALSE)
          /\ n \in DOMAIN BuildFuncMap(FnMap, TRUE)

\* C1 witness: after registrations, BuildFuncMap(false) was called on a
\* registry with an unsafe plugin and a cmd re-registered as safe.
C1_Witness ==
    /\ funcMaps.called
    /\ ~funcMaps.addUnsafeFuncs
    /\ "plugin" \in DOMAIN funcMaps.t
    /\ funcMaps.t["plugin"].Unsafe
    /\ "plugin" \notin DOMAIN funcMaps.m
    /\ "env" \notin DOMAIN funcMaps.m
    /\ "upper" \in DOMAIN funcMaps.m

(***************************************************************************)
(* Properties of BuildTemplate (SpecBuild)                                 *)
(***************************************************************************)

NoSources ==
    /\ bt._template = <<>>
    /\ DOMAIN bt.loadedFiles = {}
    /\ bt.localFiles = <<>>

\* C5: BuildTemplate called with an empty inline body, an empty fragment map
\* and no local files returns the error "no templates found" and no
\* template; and whenever it returns without error the returned name list
\* is not empty.
C5_NoTemplatesFound ==
    bt.state = "returned" =>
        /\ NoSources => (~bt.res.ok /\ bt.res.err = "no templates found")
        /\ bt.res.err = "" => (bt.res.ok /\ Len(bt.res.all) >= 1)
        /\ bt.res.ok => bt.res.err = ""

\* C5 witness: a call without any source has returned the error.
C5_Witness ==
    /\ bt.state = "returned"
    /\ NoSources
    /\ bt.res.err = "no templates found"

\* C20: the list of names a successful BuildTemplate call returns has no
\* duplicate: every name is unique after basename normalization, whichever
\* of the inline entry name, the local file paths and the fragment names
\* reduce to the same basename.
C20_ReturnedNamesUnique ==
    (bt.state = "returned" /\ bt.res.ok) =>
        \A i, j \in DOMAIN bt.res.all :
            Base(bt.res.all[i]) = Base(bt.res.all[j]) => i = j

(***************************************************************************)
(* Properties of the one-shot command (SpecCli)                            *)
(***************************************************************************)

\* C4: in one-shot mode with templates given by -t and -f flags in any
\* order, the template executed is the last one on the command line: the
\* text that ran is the text of the last flag. (Stated for command lines
\* whose -t values are all non-empty.)
C4_LastTemplateExecuted ==
    (/\ cli.pc = "done"
     /\ Len(_templates) > 0
     /\ \A i \in 1..Len(_templates) : _templates[i].S # <<>>)
    => cli.res.tpl.tmpl[cli.exec.name] =
          IF _templates[Len(_templates)].IsFile
          THEN fload(fs, _templates[Len(_templates)].S).text
          ELSE _templates[Len(_templates)].S

(***************************************************************************)
(* Properties of the render service (SpecRender)                           *)
(***************************************************************************)

\* The function an executed text can call: its action tokens' functions.
CalledFuncs(text) ==
    {TokenFunc(text[i]) : i \in {j \in 1..Len(text) : text[j] \in FuncTokens}}

\* C2: the callable set the user template of a request is assembled with
\* depends on EnableUnsafeFunctions alone: it is the safe built-ins when the
\* policy is false and all built-ins when it is true, whatever the request
\* holds, and with the policy false no executed template calls an unsafe
\* function.
C2_CallableSetByPolicyOnly ==
    run.built =>
        /\ run.unsafe = EnableUnsafeFunctions
        /\ run.bt.ok =>
              DOMAIN run.bt.tpl.funcs =
                 IF EnableUnsafeFunctions
                 THEN SafeBuiltins \cup UnsafeBuiltins
                 ELSE SafeBuiltins
        /\ (run.executed /\ ~EnableUnsafeFunctions) =>
              CalledFuncs(run.bt.tpl.Tree) \cap UnsafeBuiltins = {}

\* C2 witness: with the policy off, a request that sets forcedl and calls cmd
\* in its template was refused at assembly.
C2_Witness ==
    /\ pc = "done"
    /\ ~EnableUnsafeFunctions
    /\ run.built
    /\ post.ForceDL
    /\ post.Template = <<"{{cmd}}">>
    /\ ~run.bt.ok
    /\ run.bt.err = "function not defined"

\* C3: whenever a request supplies a non-empty inline template, the template
\* executed is that inline template, also when fragments are supplied.
C3_InlineIsEntry ==
    (run.executed /\ post.Template # <<>>) =>
        /\ run.exec.name = <<"post">>
        /\ run.bt.tpl.Tree = post.Template

\* C6: every request ends with exactly one status line written, and never
\* more than one is written on the way.
C6_ExactlyOneStatusLine ==
    /\ Len(w.calls) <= 1
    /\ pc = "done" => Len(w.calls) = 1

\* C6 witness: a download of an empty output has ended: the status line is
\* written although no body byte is.
C6_Witness ==
    /\ pc = "done"
    /\ run.shape = "download"
    /\ BytesLen(run.buf) = 0
    /\ w.calls = <<200>>
    /\ w.body = <<>>

\* The response is the page that wraps the output.
IsPage(rw, buf) == rw.body = <<[kind |-> "page", Output |-> buf]>>

\* The response has the attachment shape.
IsAttachment(rw) == "Content-Disposition" \in DOMAIN rw.header

\* C7: for a request whose template was executed without error the response
\* is the inline page if and only if the output is shorter than 1 MiB, the
\* request was multipart and forcedl is false (and the page could be
\* produced); in every other case it has the attachment shape. Both shapes
\* have status 200.
C7_InlineIffSmallMultipartNoForce ==
    (pc = "done" /\ run.executed /\ run.exec.err = "") =>
        LET cond == /\ BytesLen(run.buf) < 1048576
                    /\ r.multipart
                    /\ ~post.ForceDL
        IN  /\ IsPage(w, run.buf) => cond
            /\ (cond /\ Status(w) = 200) => IsPage(w, run.buf)
            /\ IsAttachment(w) <=> ~cond
            /\ (IsPage(w, run.buf) \/ IsAttachment(w)) => Status(w) = 200
            /\ ~(IsPage(w, run.buf) /\ IsAttachment(w))

\* C7 witness: an output of one byte less than 1 MiB was shown inline.
C7_Witness ==
    /\ pc = "done"
    /\ IsPage(w, run.buf)
    /\ BytesLen(run.buf) = 1048575
    /\ Status(w) = 200

\* C8: on the download path the Content-Disposition header names the
\* request's outfile, or "rendered.out" when that is empty, Content-Length
\* is the number of rendered bytes, and the body is the rendered bytes.
C8_DownloadHeaders ==
    [][(pc = "respond" /\ pc' = "done" /\ run'.shape = "download") =>
          /\ w'.header["Content-Disposition"] =
                <<"attachment; filename=",
                  IF post.Outfile = "" THEN "rendered.out" ELSE post.Outfile>>
          /\ Atoi(w'.header["Content-Length"]) = BytesLen(run.buf)
          /\ w'.body = IF run.buf = <<>> THEN <<>>
                       ELSE <<[kind |-> "bytes", data |-> run.buf]>>]_vars

\* C8 witness: an output of exactly 1 MiB was sent as a download under the
\* default file name.
C8_Witness ==
    /\ pc = "done"
    /\ run.shape = "download"
    /\ BytesLen(run.buf) = 1048576
    /\ w.header["Content-Disposition"] = <<"attachment; filename=", "rendered.out">>
    /\ w.header["Content-Length"] = <<1, 0, 4, 8, 5, 7, 6>>

\* The request was a POST with malformed input: a multipart body that cannot
\* be opened, a next part that cannot be read, a forcedl part that is no
\* boolean, or a body that is not JSON.
MalformedInput ==
    /\ r.Method = "POST"
    /\ r.Path = "/render"
    /\ ~(DebugHTTPRequests /\ r.dumpErr)
    /\ \/ r.multipart /\ r.mrErr
       \/ ~r.multipart /\ ~r.jsonOK
       \/ w.body = <<[kind |-> "text", text |-> "multipart: NextPart: unexpected EOF"]>>
       \/ w.body = <<[kind |-> "text", text |-> "invalid syntax"]>>

\* C9: every POST with malformed input is answered with a 4xx status, never
\* a 5xx one, and no template is assembled or executed for it.
C9_MalformedInputIs4xx ==
    (pc = "done" /\ MalformedInput) =>
        /\ 400 <= Status(w) /\ Status(w) < 500
        /\ ~run.built
        /\ ~run.executed

\* C10: a template-build failure is answered with status 400, an execution
\* failure with status 500, both with the body {status, error} whose status
\* is the status written and whose error is the non-empty error text, and
\* nothing else is sent.
C10_StructuredErrors ==
    (pc = "done" /\ run.built) =>
        /\ ~run.bt.ok =>
              /\ Status(w) = 400
              /\ run.bt.err # ""
              /\ w.body = <<[kind |-> "jresp", Status |-> Status(w),
                             Error |-> run.bt.err]>>
        /\ (run.executed /\ run.exec.err # "") =>
              /\ Status(w) = 500
              /\ w.body = <<[kind |-> "jresp", Status |-> Status(w),
                             Error |-> run.exec.err]>>

\* C10 witness: an execution failure was answered after some output had
\* already been produced.
C10_Witness ==
    /\ pc = "done"
    /\ run.executed
    /\ run.exec.err = "error calling index"
    /\ Status(w) = 500
    /\ w.body = <<[kind |-> "jresp", Status |-> 500, Error |-> "error calling index"]>>

(***************************************************************************)
(* Properties of the two handlers' rejections (SpecRender)                 *)
(***************************************************************************)

\* The request is one a handler rejects: not a POST on /render, or on the UI
\* handler not a GET or not the path "/".
Rejected ==
    \/ r.Path = "/render" /\ r.Method # "POST"
    \/ r.Path # "/render" /\ (r.Method # "GET" \/ r.Path # "/")

\* C11: a request to /render that is not a POST, and a request to the UI
\* handler that is not a GET or not for "/", is answered with the fixed
\* redirect, and ends without a body parsed, a template assembled or a
\* template executed.
C11_RejectedIsRedirected ==
    (pc = "done" /\ r # ReqIdle /\ Rejected) =>
        /\ w.calls = <<308>>
        /\ "Location" \in DOMAIN w.header
        /\ w.header["Location"] = RedirectURL
        /\ post = EmptyPost
        /\ nparts = 0
        /\ run = RunIdle

(***************************************************************************)
(* Properties of the usage tracker (SpecTrack, SpecTrackFair, SpecControl) *)
(***************************************************************************)

\* C12: a trackUsage call enqueues a record and increments the pending
\* count if and only if the flag is true when the call tests it or the call
\* passes alwaysTrack; otherwise nothing is enqueued and the pending count,
\* the channel and the consumer are left as they were.
C12_EnqueueIffFlagOrAlways ==
    [][\A c \in Callers :
          (callers[c].pc = "track" /\ callers'[c].pc # "track") =>
              IF debugAllFunctions \/ AlwaysTrack(Top(callers[c].stack).F)
              THEN /\ callers'[c].pc = "send"
                   /\ Tracking' = Tracking + 1
              ELSE /\ callers'[c].pc = "ret"
                   /\ callers'[c].enq = callers[c].enq
                   /\ Tracking' = Tracking
                   /\ audit' = audit
                   /\ consumer' = consumer]_vars

\* C12 witness: tracking was never started and a cmd call, which passes
\* alwaysTrack, holds a record for the channel.
C12_Witness ==
    /\ startTracingOnce = "new"
    /\ ~debugAllFunctions
    /\ Tracking = 1
    /\ \E c \in Callers :
          /\ callers[c].pc = "send"
          /\ Top(callers[c].stack).F = "cmd"

\* C13: with tracking started for the whole of an invocation of a tracked
\* helper, when the invocation is about to return to its caller exactly one
\* record was enqueued during it and accepted by the consumer.
C13_ExactlyOneRecordPerInvocation ==
    \A c \in Callers :
        (callers[c].pc = "ret" /\ Len(callers[c].stack) = 1
            /\ callers[c].steady)
        => callers[c].enq = 1

\* The records of a sequence are pairwise distinct.
NoDuplicates(q) == \A i, j \in DOMAIN q : q[i] = q[j] => i = j

\* The record with the given sender and number has been logged.
Logged(c, k) ==
    \E i \in DOMAIN audit.log : audit.log[i].by = c /\ audit.log[i].seq = k

\* The lines logged for each caller are its records 1, 2, ... in that order,
\* none left out.
InCallerOrder(q) ==
    \A i \in DOMAIN q :
        q[i].seq = 1 + Cardinality({j \in 1..(i - 1) : q[j].by = q[i].by})

\* C14: with the consumer running, the record a caller holds for the
\* channel is eventually logged; the log lines are the handed-over records
\* in handoff order, each once and none left out, at most the record the
\* consumer holds still missing.
C14_EveryRecordLoggedInOrder ==
    /\ [](/\ Len(audit.log) <= Len(audit.handoffs)
          /\ audit.log = SubSeq(audit.handoffs, 1, Len(audit.log))
          /\ Len(audit.handoffs) - Len(audit.log) =
                IF consumer.pc = "log" THEN 1 ELSE 0
          /\ NoDuplicates(audit.handoffs)
          /\ InCallerOrder(audit.handoffs))
    /\ \A c \in Callers :
          (callers[c].pc = "send" /\ consumers > 0)
              ~> Logged(c, callers[c].seq)

\* C14 witness: records of both callers were logged, the nested b64dec
\* record of a gunzip call among them.
C14_Witness ==
    /\ Len(audit.log) >= 3
    /\ \E i, j \in DOMAIN audit.log :
          /\ audit.log[i].by = "c1"
          /\ audit.log[j].by = "c2"
          /\ audit.log[j].F = "b64dec"

\* No controller moved between idle and a StartTracking call in this step:
\* the step, if it changed anything, is a StopTracking call.
NoStartStep == \A p \in Controllers : (ctl[p] = "idle") <=> (ctl'[p] = "idle")

\* At most one consumer is ever started, by the first StartTracking call to
\* reach the Once, and it is never stopped; a StopTracking call leaves the
\* flag false.
ConsumerStartedOnce ==
    /\ consumers' <= 1
    /\ consumers' >= consumers
    /\ (startTracingOnce = "done") => (consumers' = consumers)
    /\ (startTracingOnce = "new" /\ startTracingOnce' = "done")
          => (consumers' = 1 /\ consumer'.pc = "recv")
    /\ (consumer.pc # "none") => (consumer'.pc # "none")
    /\ NoStartStep => ~debugAllFunctions'

\* C15 as stated: at most one consumer under every interleaving, never
\* stopped, and the flag is true when a StartTracking call completes and
\* false when a StopTracking call completes.
C15_OneConsumerFlagAfterCall ==
    [][/\ ConsumerStartedOnce
       /\ \A p \in Controllers :
             (ctl[p] # "idle" /\ ctl'[p] = "idle") => debugAllFunctions']_vars

\* C15 amended: as above, the flag being true when a StartTracking call
\* completes unless a StopTracking call cleared it after that call set it.
C15_OneConsumerFlagUnlessStopped ==
    [][/\ ConsumerStartedOnce
       /\ \A p \in Controllers :
             (ctl[p] = "do" /\ ctl'[p] = "idle") => debugAllFunctions']_vars

\* C15 witness: the consumer runs, started by an earlier call, while a
\* later StartTracking call that a StopTracking call overlapped is still at
\* the Once.
C15_Witness ==
    /\ consumers = 1
    /\ startTracingOnce = "done"
    /\ ~debugAllFunctions
    /\ \E p \in Controllers : ctl[p] = "do, stopped"

(***************************************************************************)
(* Properties of the help text and of registrations (SpecHelp,             *)
(* SpecRegistry)                                                           *)
(***************************************************************************)

\* C16: any two calls that obtain the help text, by HelpText or by fns,
\* return the same text, whatever registrations happen between them: a call
\* never obtains a text other than the one the call before it obtained.
C16_HelpTextStable ==
    [][help # NoHelp => help' = help]_vars

\* C17: once a name is registered its Unsafe flag never changes: no step
\* removes the name or changes the flag, so no unsafe name comes to be
\* returned by BuildFuncMap(false).
C17_UnsafeImmutable ==
    [][\A name \in DOMAIN FnMap :
          /\ name \in DOMAIN FnMap'
          /\ FnMap'[name].Unsafe = FnMap[name].Unsafe
          /\ FnMap[name].Unsafe =>
                name \notin DOMAIN BuildFuncMap(FnMap', FALSE)]_vars


(***************************************************************************)
(* Properties of the helpers (SpecHelpers)                                 *)
(***************************************************************************)

\* decrypt is called on exactly the bytes the encrypt call before returned.
DecryptsEncrypted ==
    /\ hcall.F = "encrypt" /\ hcall.err = NoErr /\ hcall.in.type = "[]uint8"
    /\ hcall'.F = "decrypt" /\ hcall'.in = Val("[]uint8", hcall.out)

\* C18: for a plaintext given as bytes, a valid base64 key of an AES key
\* size and any associated data, encrypt returns the ciphertext followed by
\* the nonce, and decrypt of that output returns the plaintext under the
\* same key and associated data and fails under any other key or
\* associated data.
C18_DecryptInvertsEncrypt ==
    [][DecryptsEncrypted =>
        /\ LET l == Len(hcall.out)
           IN  /\ l = Len(hcall.in.v) + TagSize + NonceSize
               /\ SubSeq(hcall.out, l - NonceSize + 1, l) = hcall.iv
               /\ \A i \in 1..(l - NonceSize) : hcall.out[i].kind # "plain"
        /\ IF hcall'.b64key = hcall.b64key /\ hcall'.aad = hcall.aad
           THEN hcall'.err = NoErr /\ hcall'.out = hcall.in.v
           ELSE hcall'.err # NoErr /\ hcall'.out = NilOut]_vars

\* A two-byte plaintext came back from decrypt.
C18_Witness ==
    /\ hcall.F = "decrypt" /\ hcall.err = NoErr
    /\ hcall.in.type = "[]uint8"
    /\ hcall.out = Bytes(<<7, 8>>)
    /\ Len(hcall.in.v) = 2 + TagSize + NonceSize

\* The helpers C19 lists.
Polymorphic == PolyHelpers \cup {"encrypt", "decrypt"}

\* C19: a polymorphic helper called on an input of a type it has no case
\* for returns an error that names the type, returns no output and does no
\* further work.
C19_UnsupportedTypeIsRejected ==
    (hcall.F \in Polymorphic /\ hcall.in.type \notin Cases(hcall.F)) =>
        /\ Len(hcall.err) >= 2 /\ hcall.err[2] = hcall.in.type
        /\ hcall.out = NilOut
        /\ hcall.work = {}

(***************************************************************************)
(* Properties of the handler, continued (SpecRender)                       *)
(***************************************************************************)

\* C21: on the download path the Content-Type header is what content-type
\* detection answers for the first bytes (up to 512) of the rendered output.
C21_ContentTypeOfOutput ==
    (pc = "done" /\ run.shape = "download") =>
        w.header["Content-Type"] = DetectContentType(BytesHead(run.buf, 512))

(***************************************************************************)
(* Properties of BuildTemplate, continued (SpecBuild)                      *)
(***************************************************************************)

\* The sources of the call in registration order, each with the basename of
\* its name and its body: the inline body, the local files in argument
\* order, the fragments in the order the range took.
BuildSources ==
    (IF bt._template # <<>>
     THEN <<[base |-> Base(bt.name), body |-> bt._template]>> ELSE <<>>)
    \o [i \in DOMAIN bt.localFiles |->
          [base |-> Base(bt.localFiles[i]),
           body |-> fload(fs, bt.localFiles[i]).text]]
    \o [i \in DOMAIN bt.order |->
          [base |-> Base(bt.order[i]), body |-> bt.loadedFiles[bt.order[i]]]]

\* Every local file can be read and every body parses.
SourcesWellFormed ==
    /\ \A i \in DOMAIN bt.localFiles : fload(fs, bt.localFiles[i]).err = ""
    /\ \A i \in DOMAIN BuildSources :
          ParseErr(BuildSources[i].body, BuildFuncMap(FnMap, bt._unsafe)) = ""

\* Source j is the last one of its basename, and not the only one.
LastOfCollision(j) ==
    /\ \E i \in 1..(j - 1) : BuildSources[i].base = BuildSources[j].base
    /\ \A k \in (j + 1)..Len(BuildSources) :
          BuildSources[k].base # BuildSources[j].base

\* C22: when two sources of a BuildTemplate call reduce to the same basename
\* the call succeeds and the body bound to that name afterwards is the one
\* registered later, in the order inline body, local files, fragments.
C22_LaterRegistrationWins ==
    (bt.state = "returned" /\ SourcesWellFormed /\ BuildSources # <<>>) =>
        /\ bt.res.ok
        /\ \A j \in DOMAIN BuildSources :
              LastOfCollision(j) =>
                 /\ BuildSources[j].base \in DOMAIN bt.res.tpl.tmpl
                 /\ bt.res.tpl.tmpl[BuildSources[j].base] = BuildSources[j].body

\* The same for later bodies that are not empty: the part of C22 that holds.
LaterNonEmptyRegistrationWins ==
    (bt.state = "returned" /\ SourcesWellFormed /\ BuildSources # <<>>) =>
        /\ bt.res.ok
        /\ \A j \in DOMAIN BuildSources :
              (LastOfCollision(j) /\ ~IsEmptyTree(BuildSources[j].body)) =>
                 /\ BuildSources[j].base \in DOMAIN bt.res.tpl.tmpl
                 /\ bt.res.tpl.tmpl[BuildSources[j].base] = BuildSources[j].body

\* The lines of a file without a leading shebang line, each followed by a
\* line feed.
AllButLeadingShebang(lines) ==
    LET kept == IF lines # <<>> /\ HasShebangPrefix(lines[1]) THEN Tail(lines)
                ELSE lines
    IN  [i \in 1..(2 * Len(kept)) |->
            IF i % 2 = 1 THEN kept[(i + 1) \div 2] ELSE "\n"]

\* C23: fload omits the first line of the file if it begins with "#!" and
\* keeps every other line, in order, also a later line that begins with
\* "#!": seen in the body BuildTemplate registers for a single local file.
C23_OnlyLeadingShebangStripped ==
    (/\ bt.state = "returned" /\ bt.res.ok
     /\ Len(bt.localFiles) = 1 /\ bt._template = <<>>
     /\ DOMAIN bt.loadedFiles = {}) =>
        bt.res.tpl.tmpl[Base(bt.localFiles[1])]
            = AllButLeadingShebang(fs[bt.localFiles[1]])

(***************************************************************************)
(* Properties of the one-shot command and the tracker (SpecMain)           *)
(***************************************************************************)

\* The wait of main on the pending count has returned.
WaitReturned == DebugHTTPRequests /\ cli.pc \in {"emit", "exited"}

\* Every record made has been logged.
AllLogged ==
    /\ Len(audit.log) = audit.made
    /\ \A k \in 1..callers[MainCaller].seq : Logged(MainCaller, k)

\* C24: in every reachable state the pending count is the number of records
\* enqueued minus the number of records logged and is not negative, and
\* when the wait on the pending count has returned every record whose
\* trackUsage call started before has been logged.
C24_PendingCountExact ==
    /\ Tracking = audit.made - Len(audit.log)
    /\ Tracking >= 0
    /\ WaitReturned => AllLogged

\* C24, amended: the pending count is the number of records enqueued minus
\* the number logged, or one more while the consumer has logged a record
\* and not yet decremented the count; it is not negative, no record is
\* handed over before it is counted, and when the wait has returned every
\* record has been logged.
C24_PendingCountUpToDone ==
    /\ Tracking = audit.made - Len(audit.log)
                  + (IF consumer.pc = "done" THEN 1 ELSE 0)
    /\ Tracking >= 0
    /\ Len(audit.handoffs) <= audit.made
    /\ WaitReturned => AllLogged

\* C24 witness: the wait has returned after three records were made.
C24_Witness ==
    /\ WaitReturned
    /\ audit.made = 3
    /\ Len(audit.log) = 3

\* C30: when the one-shot command has written its output and ended, every
\* usage record enqueued during the execution has been logged, with and
\* without the debug flag.
C30_AllLoggedAtExit ==
    cli.pc = "exited" => AllLogged

(***************************************************************************)
(* Properties of the tracker, continued (SpecTrack)                        *)
(***************************************************************************)

\* C29: a trackUsage call always returns: a caller blocked in the handoff
\* of its record, also one of a helper that passes alwaysTrack while no
\* consumer was ever started, eventually completes the handoff and returns.
C29_TrackUsageReturns ==
    \A c \in Callers : (callers[c].pc = "send") ~> (callers[c].pc = "ret")

(***************************************************************************)
(* Properties of the records (SpecAudit)                                   *)
(***************************************************************************)

\* C25: the record made for a helper invocation carries the outcome of the
\* invocation: its Err field is the error the helper returned and its Output
\* field is the value the helper returned.
C25_RecordCarriesOutcome ==
    \A c \in Callers :
        callers[c].pc = "send" =>
            /\ Sending(c).Err = hcall.err
            /\ Sending(c).Output.fmt \in {"%#v", "&%#v"}
            /\ Sending(c).Output.v = hcall.out

\* The helpers that touch secrets, the filesystem, the network or the
\* environment, or spawn processes.
Sensitive ==
    {"encrypt", "decrypt", "userinput", "rawfile", "textfile", "writefile",
     "http", "env", "cmd"}

\* C27: a trackUsage call of a helper that touches secrets, the filesystem,
\* the network or the environment or spawns processes enqueues a record
\* also while the track-everything flag is false.
C27_SensitiveAlwaysTracked ==
    [][\A c \in Callers :
          (/\ callers[c].pc = "track" /\ callers'[c].pc # "track"
           /\ Top(callers[c].stack).F \in Sensitive
           /\ ~debugAllFunctions) =>
              (callers'[c].pc = "send" /\ Tracking' = Tracking + 1)]_vars

(***************************************************************************)
(* Properties of the helpers, continued (SpecHelpers)                      *)
(***************************************************************************)

\* The ciphertext a decrypt call is given, as bytes, as a stream or as the
\* base64 text of it, has fewer bytes than a nonce.
ShortCiphertext ==
    \/ /\ hcall.in.type \in {"[]uint8", "*bytes.Buffer"}
       /\ Len(hcall.in.v) < NonceSize
    \/ /\ hcall.in.type = "string"
       /\ B64Dec(hcall.in.v).err = NoErr
       /\ Len(B64Dec(hcall.in.v).bytes) < NonceSize

C28_HexdecInvertsHexenc ==
    [][(/\ hcall.F = "hexenc" /\ hcall.err = NoErr
        /\ hcall'.F = "hexdec" /\ hcall'.in.v = hcall.out
        /\ hcall'.in.type \in Cases("hexdec")) =>
           (hcall'.err = NoErr /\ hcall'.out = hcall.in.v)]_vars

\* The same for the text given as bytes or as a stream: the part of C28
\* that holds.
HexdecInvertsHexencBytes ==
    [][(/\ hcall.F = "hexenc" /\ hcall.err = NoErr
        /\ hcall'.F = "hexdec" /\ hcall'.in.v = hcall.out
        /\ hcall'.in.type \in {"[]uint8", "*bytes.Buffer"}) =>
           (hcall'.err = NoErr /\ hcall'.out = hcall.in.v)]_vars

====
